---------------------------- MODULE Spec2Model ----------------------------
(***************************************************************************)
(* A model of tex3ds (devkitPro): the compression codecs, the tile         *)
(* swizzle, the per-tile encoding pipeline, the atlas packer and the BCFNT *)
(* character maps, each as a state machine of its own over the variables   *)
(* of its subsystem.  Every subsystem has its own specification; the       *)
(* variables of the other subsystems stay at their idle values.            *)
(***************************************************************************)
EXTENDS Integers, Sequences, FiniteSets, TLC

VARIABLES
    \* LZ10 / LZ11 codec (source/lzss.cpp)
    lz_pc, lz_mode, lz_src, lz_enc, lz_dec,
    \* RLE codec (source/rle.cpp)
    rle_pc, rle_src, rle_enc, rle_dec,
    \* Huffman codec (source/huff.cpp)
    huff_pc, huff_src, huff_enc, huff_dec,
    \* tile pipeline of process_image (source/tex3ds.cpp): the main thread's
    \* position and locals, the mipmap queue, the shared queues and flag, the
    \* output, and each worker's position and work unit
    tp, img_queue, work_queue, result_queue, work_done, image_data, w_pc, w_unit,
    \* swizzle (source/swizzle.cpp): the image's width, the image before and
    \* after each call (row-major pixels), and each call's reverse flag
    sw_width, sw_hist, sw_ops,
    \* Atlas::build (source/atlas.cpp): position, the sorted images, the
    \* border, the packers still to try, the packer being solved, atlas.subs
    atl_pc, atl_images, atl_border, atl_packers, atl_packer, atl_subs,
    \* BCFNT (source/bcfnt.cpp): the glyph map (code -> the font that gave the
    \* glyph, its width record and its ascent), the CMAP list, the other
    \* fields of the font, the number of addFont calls made, the file that
    \* serialize wrote and the font parsed from it
    bf_glyphs, bf_cmaps, bf, bf_fonts, bf_file, bf_parsed,
    \* write_image_data (source/tex3ds.cpp): position, the compression
    \* format option, the encoded image and the buffer written
    wr_pc, compression_format, wr_data, wr_buffer,
    \* the output stage of the C sources (source/main.cpp): position, the
    \* compression format, the encoded image, the values assigned past the
    \* end of a header array, the bytes written
    hd_pc, hd_format, hd_buf, hd_oob, hd_file,
    \* a tile encoder (source/encode.cpp): position, the work unit, whether
    \* a pixel was assigned past the end of the pixel cache
    enc_pc, enc_work, enc_oob,
    \* finalize_process_format (source/tex3ds.cpp): position, the format
    \* option given, process_format, the input images
    fmt_pc, fmt_option, process_format, fmt_images,
    \* the thread pool under BCFNT::addFont (face): hardware_concurrency (),
    \* each worker's position and job, jobs, quit, the main thread, glyphs,
    \* the owner of the ingestion mutex, the state of each job's future
    pl_hc, pl_pc, pl_job, pl_jobs, pl_quit, ing, ing_glyphs, ing_mutex,
    ing_jobs,
    \* the mipmap levels of one texture (source/tex3ds.cpp): position,
    \* output_width, output_height, whether a filter is selected, img_queue,
    \* the levels appended to image_data, the header's mipmapLevels
    mip

lzVars  == <<lz_pc, lz_mode, lz_src, lz_enc, lz_dec>>
rleVars == <<rle_pc, rle_src, rle_enc, rle_dec>>
huffVars == <<huff_pc, huff_src, huff_enc, huff_dec>>
tileVars == <<tp, img_queue, work_queue, result_queue, work_done, image_data,
              w_pc, w_unit>>
swzVars == <<sw_width, sw_hist, sw_ops>>
atlVars == <<atl_pc, atl_images, atl_border, atl_packers, atl_packer, atl_subs>>
fontVars == <<bf_glyphs, bf_cmaps, bf, bf_fonts, bf_file, bf_parsed>>
wrVars  == <<wr_pc, compression_format, wr_data, wr_buffer>>
hdVars  == <<hd_pc, hd_format, hd_buf, hd_oob, hd_file>>
encVars == <<enc_pc, enc_work, enc_oob>>
fmtVars == <<fmt_pc, fmt_option, process_format, fmt_images>>
poolVars == <<pl_hc, pl_pc, pl_job, pl_jobs, pl_quit, ing, ing_glyphs,
              ing_mutex, ing_jobs>>
mipVars == <<mip>>
vars    == <<lzVars, rleVars, huffVars, tileVars, swzVars, atlVars, fontVars,
             wrVars, hdVars, encVars, fmtVars, poolVars, mipVars>>

(***************************************************************************)
(* Integer helpers in place of the C operators on unsigned integers.       *)
(***************************************************************************)
Min(a, b) == IF a < b THEN a ELSE b
Max(a, b) == IF a > b THEN a ELSE b

RECURSIVE Pow2(_)
Pow2(n) == IF n = 0 THEN 1 ELSE 2 * Pow2(n - 1)

Shl(v, n) == v * Pow2(n)
Shr(v, n) == v \div Pow2(n)
U8(v)  == v % 256

RECURSIVE BitOr(_, _)
BitOr(a, b) ==
    IF a = 0 THEN b
    ELSE IF b = 0 THEN a
    ELSE (IF a % 2 = 1 \/ b % 2 = 1 THEN 1 ELSE 0) + 2 * BitOr(a \div 2, b \div 2)

RECURSIVE BitAnd(_, _)
BitAnd(a, b) ==
    IF a = 0 \/ b = 0 THEN 0
    ELSE (IF a % 2 = 1 /\ b % 2 = 1 THEN 1 ELSE 0) + 2 * BitAnd(a \div 2, b \div 2)

Rep(b, n) == [i \in 1..n |-> b]

\* the byte strings over alphabet A of length at most n
RECURSIVE SeqsUpTo(_, _)
SeqsUpTo(A, n) ==
    IF n = 0 THEN {<< >>}
    ELSE LET S == SeqsUpTo(A, n - 1)
         IN  S \cup {Append(s, a) : s \in {t \in S : Len(t) = n - 1}, a \in A}

\* vec[i] of a std::vector or pointer, i counted from 0
At(s, i) == s[i + 1]

\* the bytes of s from offset i (counted from 0) on
Drop(s, i) == SubSeq(s, i + 1, Len(s))

\* "if (result.size () & 0x3) result.resize ((result.size () + 3) & ~0x3)"
\* (resize appends zero bytes)
PadTo4(s) ==
    IF Len(s) % 4 # 0 THEN s \o Rep(0, ((Len(s) + 3) \div 4) * 4 - Len(s)) ELSE s

(***************************************************************************)
(* The GBA-style compression header.  compressionHeader (the C++ routine   *)
(* the encoders call) is not among the sources; it is modelled from the    *)
(* specification, section 4.4: four bytes, or eight when size >= 2^24.     *)
(***************************************************************************)
compressionHeader(type, size) ==
    IF size < 16777216
    THEN <<type, U8(size), U8(Shr(size, 8)), U8(Shr(size, 16))>>
    ELSE <<BitOr(type, 128), 0, 0, 0,
           U8(size), U8(Shr(size, 8)), U8(Shr(size, 16)), U8(Shr(size, 24))>>

HeaderLen(size) == Len(compressionHeader(0, size))

(***************************************************************************)
(* LZ10 / LZ11 (source/lzss.cpp)                                           *)
(***************************************************************************)
LZ10_MAX_LEN  == 18
LZ10_MAX_DISP == 4096
LZ11_MAX_LEN  == 65808
LZ11_MAX_DISP == 4096

\* nullptr, and the "no value" index
NULL == -1

\* rfind: the last index in [first, last) holding val, or NULL.  The loop
\* "while (--last >= first) if (*last == val) return last" scans downwards; d is
\* the number of bytes it steps over before it stops.
rfind(buf, first, last, val) ==
    IF \A i \in first..(last - 1) : At(buf, i) # val THEN NULL
    ELSE last - 1 - (CHOOSE d \in 0..(last - 1 - first) :
                        /\ At(buf, last - 1 - d) = val
                        /\ \A e \in 0..(d - 1) : At(buf, last - 1 - e) # val)

\* the inner loop of find_best_match, "for (i = 1; i < len; ++i)": the length of
\* the match of p against buffer, that is the first i that ends the loop
test_len(buf, p, buffer, len) ==
    CHOOSE i \in 1..len :
        /\ i = len \/ At(buf, p + i) # At(buf, buffer + i)
        /\ \A j \in 1..(i - 1) : At(buf, p + j) = At(buf, buffer + j)

\* "if (test_len >= best_len)": whether a candidate replaces the best so far
BetterMatchNever(t, best_len) == t > best_len + 1
BetterMatch(t, best_len) == t >= best_len

\* one iteration of the while (p) loop of find_best_match
fbm_step(buf, start, buffer, len, s) ==
    IF s.p = NULL \/ s.stop THEN s
    ELSE LET t  == test_len(buf, s.p, buffer, len)
             bs == IF BetterMatch(t, s.best_len) THEN s.p ELSE s.best_start
             bl == IF BetterMatch(t, s.best_len) THEN t ELSE s.best_len
         IN  IF bl = len
             THEN [p |-> s.p, best_start |-> bs, best_len |-> bl, stop |-> TRUE]
             ELSE [p |-> rfind(buf, start, s.p, At(buf, buffer)),
                   best_start |-> bs, best_len |-> bl, stop |-> FALSE]

\* at most n iterations of the while (p) loop, in two halves (an iteration
\* after the loop has ended changes nothing)
RECURSIVE fbm_loop(_, _, _, _, _, _)
fbm_loop(buf, start, buffer, len, s, n) ==
    IF n <= 1 THEN fbm_step(buf, start, buffer, len, s)
    ELSE LET h == fbm_loop(buf, start, buffer, len, s, n \div 2)
         IN  IF h.p = NULL \/ h.stop THEN h
             ELSE fbm_loop(buf, start, buffer, len, h, n - n \div 2)

\* find_best_match: [ptr, outlen]; ptr = NULL and outlen = 0 when nothing matches
find_best_match(buf, start0, buffer, len, max_disp) ==
    LET start == IF buffer - start0 > max_disp THEN buffer - max_disp ELSE start0
        r     == fbm_loop(buf, start, buffer, len,
                          [p |-> rfind(buf, start, buffer, At(buf, buffer)),
                           best_start |-> buffer, best_len |-> 0, stop |-> FALSE],
                          buffer - start)
    IN  IF r.best_len # 0 THEN [ptr |-> r.best_start, outlen |-> r.best_len]
        ELSE [ptr |-> NULL, outlen |-> 0]

\* "size_t disp = buffer - tmp - 1"
LzDispOffByOne(buffer, tmp) == buffer - tmp
LzDisp(buffer, tmp) == buffer - tmp - 1

\* LzToken with the LZ10 length stored as tmplen - 2
LzTokenLong(mode, tmplen, disp) ==
    IF mode = "LZ10"
    THEN <<U8(BitOr(Shl(tmplen - 2, 4), Shr(disp, 8))), U8(disp)>>
    ELSE <<U8(BitOr(Shl(tmplen - 1, 4), Shr(disp, 8))), U8(disp)>>
\* the bytes of one compressed chunk (the four branches of lzssCommonEncode)
LzToken(mode, tmplen, disp) ==
    IF mode = "LZ10"
    THEN <<U8(BitOr(Shl(tmplen - 3, 4), Shr(disp, 8))), U8(disp)>>
    ELSE IF tmplen <= 16
    THEN <<U8(BitOr(Shl(tmplen - 1, 4), Shr(disp, 8))), U8(disp)>>
    ELSE IF tmplen <= 272
    THEN <<U8(Shr(tmplen - 17, 4)),
           U8(BitOr(Shl(tmplen - 17, 4), Shr(disp, 8))), U8(disp)>>
    ELSE <<U8(BitOr(Shl(1, 4), Shr(tmplen - 273, 12))),
           U8(Shr(tmplen - 273, 4)),
           U8(BitOr(Shl(tmplen - 273, 4), Shr(disp, 8))), U8(disp)>>

\* the length of the chunk at buffer, after the lazy-matching check
LzChunkLen(buf, buffer, len, max_len, max_disp) ==
    LET m      == IF buffer # 0
                  THEN find_best_match(buf, 0, buffer, Min(len, max_len), max_disp)
                  ELSE [ptr |-> NULL, outlen |-> 1]
        tmplen == m.outlen
    IN  IF tmplen > 2 /\ tmplen < len
        THEN LET s        == find_best_match(buf, 0, buffer + 1,
                                             Min(len - 1, max_len), max_disp).outlen
                 skip_len == IF s < 3 THEN 1 ELSE s
                 n        == find_best_match(buf, 0, buffer + tmplen,
                                             Min(len - tmplen, max_len), max_disp).outlen
                 next_len == IF n < 3 THEN 1 ELSE n
             IN  [ptr |-> m.ptr,
                  outlen |-> IF tmplen + next_len <= skip_len + 1 THEN 1 ELSE tmplen]
        ELSE m

\* one iteration of the while (len > 0) loop of lzssCommonEncode; the state is
\* (buffer, result, code_pos, shift), and len is what is left of the input
lz_step(buf, mode, s) ==
    LET len      == Len(buf) - s.buffer
        max_len  == IF mode = "LZ10" THEN LZ10_MAX_LEN ELSE LZ11_MAX_LEN
        max_disp == IF mode = "LZ10" THEN LZ10_MAX_DISP ELSE LZ11_MAX_DISP
    IN  IF len = 0 THEN s
        ELSE LET c      == LzChunkLen(buf, s.buffer, len, max_len, max_disp)
                 tmplen == IF c.outlen < 3 THEN 1 ELSE c.outlen
                 r1     == IF c.outlen < 3
                           THEN Append(s.result, At(buf, s.buffer))
                           ELSE [s.result EXCEPT ![s.code_pos + 1] =
                                     BitOr(@, Shl(1, s.shift))]
                                \o LzToken(mode, tmplen, LzDisp(s.buffer, c.ptr))
                 more   == s.shift = 0 /\ len - tmplen # 0
                 shift1 == IF more THEN 8 ELSE s.shift
             IN  [buffer   |-> s.buffer + tmplen,
                  result   |-> IF more THEN Append(r1, 0) ELSE r1,
                  code_pos |-> IF more THEN Len(r1) ELSE s.code_pos,
                  shift    |-> IF shift1 # 0 THEN shift1 - 1 ELSE shift1]

\* n iterations of the while (len > 0) loop
RECURSIVE lz_loop(_, _, _, _)
lz_loop(buf, mode, s, n) ==
    IF n <= 1 THEN lz_step(buf, mode, s)
    ELSE LET h == lz_loop(buf, mode, s, n \div 2)
         IN  IF h.buffer = Len(buf) THEN h
             ELSE lz_loop(buf, mode, h, n - n \div 2)

lzssCommonEncode(buf, mode) ==
    LET hdr == compressionHeader(IF mode = "LZ10" THEN 16 ELSE 17, Len(buf))
        s0  == [buffer |-> 0, result |-> Append(hdr, 0),
                code_pos |-> Len(hdr), shift |-> 7]
    IN  PadTo4(lz_loop(buf, mode, s0, Len(buf)).result)

lzssEncode(buf) == lzssCommonEncode(buf, "LZ10")
lz11Encode(buf) == lzssCommonEncode(buf, "LZ11")

(***************************************************************************)
(* The decoders read the source through a pointer.  A read past the end of *)
(* the encoded bytes, or a copy from before the start of the output, is    *)
(* undefined behaviour; the decoders of the model stop there and report it *)
(* in the field ub.                                                        *)
(***************************************************************************)
InSrc(src, i, n) == i + n <= Len(src)

\* "for (uint8_t *p = dst - disp - 1; len > 0; --len) *dst++ = *p++": the copy
\* reads what it has just written, so the last disp + 1 bytes repeat
CopyBack(dst, disp, len) ==
    [k \in 1..(Len(dst) + len) |->
        IF k <= Len(dst) THEN dst[k]
        ELSE dst[Len(dst) - disp + ((k - Len(dst) - 1) % (disp + 1))]]

\* "len = (((*src) & 0xF0) >> 4) + 3"
Lz10Len(b) == Shr(BitAnd(b, 240), 4) + 3

\* one iteration of the while (size > 0) loop of lzssDecode; the state is
\* (source index i, output dst, flags, mask, size)
lzssDecodeStep(src, s) ==
    IF s.size = 0 \/ s.ub THEN s
    ELSE LET rd == IF s.mask = 0 THEN 1 ELSE 0
             i  == s.i + rd
         IN  IF ~InSrc(src, s.i, rd) THEN [s EXCEPT !.ub = TRUE]
             ELSE LET flags == IF s.mask = 0 THEN At(src, s.i) ELSE s.flags
                      mask  == IF s.mask = 0 THEN 128 ELSE s.mask
                  IN  IF BitAnd(flags, mask) # 0
                      THEN IF ~InSrc(src, i, 2) THEN [s EXCEPT !.ub = TRUE]
                           ELSE LET len0 == Lz10Len(At(src, i))
                                    disp == BitOr(Shl(BitAnd(At(src, i), 15), 8),
                                                  At(src, i + 1))
                                    len  == IF len0 > s.size THEN s.size ELSE len0
                                IN  IF disp + 1 > Len(s.dst) THEN [s EXCEPT !.ub = TRUE]
                                    ELSE [i |-> i + 2, dst |-> CopyBack(s.dst, disp, len),
                                          flags |-> flags, mask |-> Shr(mask, 1),
                                          size |-> s.size - len, ub |-> FALSE]
                      ELSE IF ~InSrc(src, i, 1) THEN [s EXCEPT !.ub = TRUE]
                           ELSE [i |-> i + 1, dst |-> Append(s.dst, At(src, i)),
                                 flags |-> flags, mask |-> Shr(mask, 1),
                                 size |-> s.size - 1, ub |-> FALSE]

RECURSIVE lzssDecodeLoop(_, _, _)
lzssDecodeLoop(src, s, n) ==
    IF n <= 1 THEN lzssDecodeStep(src, s)
    ELSE LET h == lzssDecodeLoop(src, s, n \div 2)
         IN  IF h.size = 0 \/ h.ub THEN h
             ELSE lzssDecodeLoop(src, h, n - n \div 2)

lzssDecode(source, size) ==
    LET r == lzssDecodeLoop(source,
                            [i |-> 0, dst |-> << >>, flags |-> 0, mask |-> 0,
                             size |-> size, ub |-> FALSE], size)
    IN  [out |-> r.dst, ub |-> r.ub]

\* the switch of lz11Decode: the length and the number of bytes read before
\* the displacement pair; ok is FALSE when the source ends inside the token
Lz11Len(src, i) ==
    LET none == [len |-> 0, used |-> 0, ok |-> FALSE]
    IN  IF ~InSrc(src, i, 1) THEN none
        ELSE LET k == Shr(At(src, i), 4)
             IN  IF k = 0
                 THEN IF ~InSrc(src, i, 2) THEN none
                      ELSE [len  |-> BitOr(Shl(At(src, i), 4),
                                           Shr(At(src, i + 1), 4)) + 17,
                            used |-> 1, ok |-> TRUE]
                 ELSE IF k = 1
                 THEN IF ~InSrc(src, i, 3) THEN none
                      ELSE [len  |-> BitOr(BitOr(Shl(BitAnd(At(src, i), 15), 12),
                                                 Shl(At(src, i + 1), 4)),
                                           Shr(At(src, i + 2), 4)) + 273,
                            used |-> 2, ok |-> TRUE]
                 ELSE [len |-> Shr(At(src, i), 4) + 1, used |-> 0, ok |-> TRUE]

\* one pass of the inner for loop of lz11Decode (one block); the state is
\* (source index i, output dst, flags, the loop counter bit, size), and bit = 8
\* stands for the outer loop reading the next flags byte
lz11DecodeStep(src, s) ==
    IF s.size = 0 \/ s.ub THEN s
    ELSE LET rd == IF s.bit = 8 THEN 1 ELSE 0
             i  == s.i + rd
         IN  IF ~InSrc(src, s.i, rd) THEN [s EXCEPT !.ub = TRUE]
             ELSE LET flags == IF s.bit = 8 THEN At(src, s.i) ELSE s.flags
                      bit   == IF s.bit = 8 THEN 0 ELSE s.bit
                  IN  IF BitAnd(flags, 128) # 0
                      THEN LET t == Lz11Len(src, i)
                           IN  IF ~t.ok THEN [s EXCEPT !.ub = TRUE]
                               ELSE IF ~InSrc(src, i + t.used, 2)
                               THEN [s EXCEPT !.ub = TRUE]
                               ELSE LET j    == i + t.used
                                        disp == BitOr(Shl(BitAnd(At(src, j), 15), 8),
                                                      At(src, j + 1))
                                        len  == IF t.len > s.size THEN s.size ELSE t.len
                                    IN  IF disp + 1 > Len(s.dst)
                                        THEN [s EXCEPT !.ub = TRUE]
                                        ELSE [i |-> j + 2,
                                              dst |-> CopyBack(s.dst, disp, len),
                                              flags |-> U8(Shl(flags, 1)),
                                              bit |-> bit + 1,
                                              size |-> s.size - len, ub |-> FALSE]
                      ELSE IF ~InSrc(src, i, 1) THEN [s EXCEPT !.ub = TRUE]
                           ELSE [i |-> i + 1, dst |-> Append(s.dst, At(src, i)),
                                 flags |-> U8(Shl(flags, 1)), bit |-> bit + 1,
                                 size |-> s.size - 1, ub |-> FALSE]

RECURSIVE lz11DecodeLoop(_, _, _)
lz11DecodeLoop(src, s, n) ==
    IF n <= 1 THEN lz11DecodeStep(src, s)
    ELSE LET h == lz11DecodeLoop(src, s, n \div 2)
         IN  IF h.size = 0 \/ h.ub THEN h
             ELSE lz11DecodeLoop(src, h, n - n \div 2)

lz11Decode(source, size) ==
    LET r == lz11DecodeLoop(source,
                            [i |-> 0, dst |-> << >>, flags |-> 0, bit |-> 8,
                             size |-> size, ub |-> FALSE], size)
    IN  [out |-> r.dst, ub |-> r.ub]

(***************************************************************************)
(* The inputs of the LZ round trip: every byte string over {0, 85} of      *)
(* length at most MaxLzLen, and a run whose length sits at a boundary of   *)
(* the token formats, between two short strings.                           *)
(***************************************************************************)
MaxLzLen == 6
MaxLzPad == 1
LzInputs ==
    SeqsUpTo({0, 85}, MaxLzLen)
    \cup {p \o Rep(85, n) \o s :
            p \in SeqsUpTo({0, 85}, MaxLzPad),
            n \in {LZ10_MAX_LEN, LZ10_MAX_LEN + 1, 2 * LZ10_MAX_LEN + 2,
                   16, 17, 32, 272, 273, 274, 300},
            s \in SeqsUpTo({0, 85}, MaxLzPad)}

LzOff ==
    /\ lz_pc = "off" /\ lz_mode = "LZ10" /\ lz_src = << >>
    /\ lz_enc = << >> /\ lz_dec = [out |-> << >>, ub |-> FALSE]

RleOff ==
    /\ rle_pc = "off" /\ rle_src = << >>
    /\ rle_enc = << >> /\ rle_dec = [out |-> << >>, ub |-> FALSE]

HuffOff ==
    /\ huff_pc = "off" /\ huff_src = << >>
    /\ huff_enc = << >> /\ huff_dec = [out |-> << >>, ub |-> FALSE]

TileOff ==
    /\ tp = [pc |-> "off"] /\ img_queue = << >> /\ work_queue = << >>
    /\ result_queue = << >> /\ work_done = FALSE /\ image_data = << >>
    /\ w_pc = << >> /\ w_unit = << >>

SwzOff == sw_width = 0 /\ sw_hist = << >> /\ sw_ops = << >>

AtlOff ==
    /\ atl_pc = "off" /\ atl_images = << >> /\ atl_border = 0
    /\ atl_packers = {} /\ atl_packer = [width |-> 0] /\ atl_subs = << >>

FontOff ==
    /\ bf_glyphs = << >> /\ bf_cmaps = << >> /\ bf = << >>
    /\ bf_fonts = 0 /\ bf_file = << >> /\ bf_parsed = << >>

WrOff ==
    /\ wr_pc = "off" /\ compression_format = "COMPRESSION_AUTO"
    /\ wr_data = << >> /\ wr_buffer = << >>

HdOff ==
    /\ hd_pc = "off" /\ hd_format = "COMPRESSION_NONE"
    /\ hd_buf = << >> /\ hd_oob = << >> /\ hd_file = << >>

EncOff == enc_pc = "off" /\ enc_work = << >> /\ enc_oob = FALSE

FmtOff ==
    /\ fmt_pc = "off" /\ fmt_option = "RGBA8888" /\ process_format = "RGBA8888"
    /\ fmt_images = << >>

PoolOff ==
    /\ pl_hc = 0 /\ pl_pc = << >> /\ pl_job = << >> /\ pl_jobs = << >>
    /\ pl_quit = FALSE /\ ing = [pc |-> "off"] /\ ing_glyphs = {}
    /\ ing_mutex = -1 /\ ing_jobs = << >>

MipOff == mip = [pc |-> "off"]

\* every subsystem but k at its idle value
Others(k) ==
    /\ IF k = "lz"  THEN TRUE ELSE LzOff
    /\ IF k = "rle" THEN TRUE ELSE RleOff
    /\ IF k = "huff" THEN TRUE ELSE HuffOff
    /\ IF k = "tile" THEN TRUE ELSE TileOff
    /\ IF k = "swz" THEN TRUE ELSE SwzOff
    /\ IF k = "atl" THEN TRUE ELSE AtlOff
    /\ IF k = "font" THEN TRUE ELSE FontOff
    /\ IF k = "wr" THEN TRUE ELSE WrOff
    /\ IF k = "hd" THEN TRUE ELSE HdOff
    /\ IF k = "enc" THEN TRUE ELSE EncOff
    /\ IF k = "fmt" THEN TRUE ELSE FmtOff
    /\ IF k = "pool" THEN TRUE ELSE PoolOff
    /\ IF k = "mip" THEN TRUE ELSE MipOff

\* every subsystem but k unchanged
Frame(k) ==
    /\ IF k = "lz"  THEN TRUE ELSE UNCHANGED lzVars
    /\ IF k = "rle" THEN TRUE ELSE UNCHANGED rleVars
    /\ IF k = "huff" THEN TRUE ELSE UNCHANGED huffVars
    /\ IF k = "tile" THEN TRUE ELSE UNCHANGED tileVars
    /\ IF k = "swz" THEN TRUE ELSE UNCHANGED swzVars
    /\ IF k = "atl" THEN TRUE ELSE UNCHANGED atlVars
    /\ IF k = "font" THEN TRUE ELSE UNCHANGED fontVars
    /\ IF k = "wr" THEN TRUE ELSE UNCHANGED wrVars
    /\ IF k = "hd" THEN TRUE ELSE UNCHANGED hdVars
    /\ IF k = "enc" THEN TRUE ELSE UNCHANGED encVars
    /\ IF k = "fmt" THEN TRUE ELSE UNCHANGED fmtVars
    /\ IF k = "pool" THEN TRUE ELSE UNCHANGED poolVars
    /\ IF k = "mip" THEN TRUE ELSE UNCHANGED mipVars

LzInit ==
    /\ lz_pc = "input"
    /\ lz_mode \in {"LZ10", "LZ11"}
    /\ lz_src \in LzInputs
    /\ lz_enc = << >>
    /\ lz_dec = [out |-> << >>, ub |-> FALSE]
    /\ Others("lz")

\* lzssEncode / lz11Encode on the input
LzEncode ==
    /\ lz_pc = "input"
    /\ lz_enc' = lzssCommonEncode(lz_src, lz_mode)
    /\ lz_pc' = "encoded"
    /\ UNCHANGED <<lz_mode, lz_src, lz_dec>>
    /\ Frame("lz")

\* lzssDecode / lz11Decode on the bytes after the header, asked for |x| bytes
LzDecode ==
    /\ lz_pc = "encoded"
    /\ lz_dec' = IF lz_mode = "LZ10"
                 THEN lzssDecode(Drop(lz_enc, HeaderLen(Len(lz_src))), Len(lz_src))
                 ELSE lz11Decode(Drop(lz_enc, HeaderLen(Len(lz_src))), Len(lz_src))
    /\ lz_pc' = "decoded"
    /\ UNCHANGED <<lz_mode, lz_src, lz_enc>>
    /\ Frame("lz")

LzNext == LzEncode \/ LzDecode

SpecLz == LzInit /\ [][LzNext]_vars

\* C1: decoding the LZ10 / LZ11 encoder's output (the bytes after the header)
\* for |x| bytes reproduces x exactly, without reading outside the buffers.
LzRoundTrip ==
    lz_pc = "decoded" => (lz_dec.out = lz_src /\ ~lz_dec.ub)

\* a decoded LZ11 input whose encoding holds a four-byte (extra extended) token
LzRoundTripWitness ==
    /\ lz_pc = "decoded"
    /\ lz_mode = "LZ11"
    /\ Len(lz_src) > 273
    /\ Len(lz_enc) < 16
    /\ lz_dec.out = lz_src

\* C23: LZ10-encoding 32 bytes that are all 0x55 gives the header 10 20 00 00,
\* the code byte 0x40, the literal 0x55, the match token F0 00, then another
\* group (with or without a code byte of its own) of the literal 0x55 and the
\* match token B0 00, then zero padding to a multiple of 4 bytes.
Lz10Example ==
    (lz_pc # "input" /\ lz_mode = "LZ10" /\ lz_src = Rep(85, 32))
    => \E group \in {<< >>} \cup {<<c>> : c \in 0..255} :
          lz_enc = PadTo4(<<16, 32, 0, 0>> \o <<64, 85, 240, 0>> \o group
                          \o <<85, 176, 0>>)

\* C23, amended: LZ10-encoding 32 bytes that are all 0x55 gives the header
\* 10 20 00 00, the code byte 0x60, the literal 0x55, the match token F0 00
\* (length 18, displacement 0) and the match token A0 00 (length 13,
\* displacement 0) in the same group, then two bytes of zero padding.
Lz10ExampleOutput ==
    (lz_pc # "input" /\ lz_mode = "LZ10" /\ lz_src = Rep(85, 32))
    => lz_enc = <<16, 32, 0, 0, 96, 85, 240, 0, 160, 0, 0, 0>>

Lz10ExampleOutputWitness ==
    /\ lz_pc = "decoded" /\ lz_mode = "LZ10" /\ lz_src = Rep(85, 32)
    /\ lz_enc # << >>
    /\ lz_dec.out = lz_src

(***************************************************************************)
(* RLE codec (source/rle.cpp).                                             *)
(***************************************************************************)
RLE_MIN_RUN  == 3
RLE_MAX_RUN  == 130
RLE_MAX_COPY == 128

\* the run of the byte at src: the for loop of rleEncode
RleRun(buf, src) ==
    CHOOSE run \in 1..RLE_MAX_RUN :
        /\ \/ ~(src + run < Len(buf) /\ run < RLE_MAX_RUN)
           \/ At(buf, src + run) # At(buf, src)
        /\ \A r \in 1..(run - 1) :
              /\ src + r < Len(buf) /\ r < RLE_MAX_RUN
              /\ At(buf, src + r) = At(buf, src)

\* "check if we need to encode a copy"
RleCopyDueLate(save_len, run) == save_len > 0 /\ run > 2
RleCopyDue(save_len, run) ==
    save_len = RLE_MAX_COPY \/ (save_len > 0 /\ run > 2)

\* the copy token: length byte followed by the saved bytes
RleCopy(buf, save, save_len) ==
    <<U8(save_len - 1)>> \o SubSeq(buf, save + 1, save + save_len)

\* one iteration of the while loop of rleEncode
rle_step(buf, s) ==
    LET run == RleRun(buf, s.src)
        src1 == IF run < RLE_MIN_RUN THEN s.src + 1 ELSE s.src
        sl1  == IF run < RLE_MIN_RUN THEN s.save_len + 1 ELSE s.save_len
        due  == RleCopyDue(sl1, run)
        res2 == IF due THEN s.result \o RleCopy(buf, s.save, sl1) ELSE s.result
        sv2  == IF due THEN s.save + sl1 ELSE s.save
        sl2  == IF due THEN 0 ELSE sl1
    IN  IF run > 2
        THEN [src |-> src1 + run, save |-> src1 + run, save_len |-> sl2,
              result |-> res2 \o <<BitOr(128, run - 3), At(buf, src1)>>]
        ELSE [src |-> src1, save |-> sv2, save_len |-> sl2, result |-> res2]

RECURSIVE rle_loop(_, _, _)
rle_loop(buf, s, n) ==
    IF s.src >= Len(buf) \/ n = 0 THEN s
    ELSE IF n = 1 THEN rle_step(buf, s)
    ELSE LET h == rle_loop(buf, s, n \div 2)
         IN  IF h.src >= Len(buf) THEN h ELSE rle_loop(buf, h, n - n \div 2)

rleEncode(buf) ==
    LET hdr == compressionHeader(48, Len(buf))
        r   == rle_loop(buf, [src |-> 0, save |-> 0, save_len |-> 0,
                              result |-> hdr], Len(buf))
    IN  PadTo4(IF r.save_len > 0
               THEN r.result \o RleCopy(buf, r.save, r.save_len)
               ELSE r.result)

\* one iteration of the while loop of rleDecode; ub: a read outside source
rleDecodeStep(src, s) ==
    IF ~InSrc(src, s.i, 1) THEN [s EXCEPT !.ub = TRUE]
    ELSE LET byte == At(src, s.i)
             run  == BitAnd(byte, 128) # 0
             len  == Min(BitAnd(byte, 127) + (IF run THEN 3 ELSE 1), s.size)
         IN  IF run
             THEN IF ~InSrc(src, s.i + 1, 1) THEN [s EXCEPT !.ub = TRUE]
                  ELSE [i |-> s.i + 2, dst |-> s.dst \o Rep(At(src, s.i + 1), len),
                        size |-> s.size - len, ub |-> FALSE]
             ELSE IF ~InSrc(src, s.i + 1, len) THEN [s EXCEPT !.ub = TRUE]
                  ELSE [i |-> s.i + 1 + len,
                        dst |-> s.dst \o SubSeq(src, s.i + 2, s.i + 1 + len),
                        size |-> s.size - len, ub |-> FALSE]

RECURSIVE rleDecodeLoop(_, _, _)
rleDecodeLoop(src, s, n) ==
    IF s.size = 0 \/ s.ub \/ n = 0 THEN s
    ELSE IF n = 1 THEN rleDecodeStep(src, s)
    ELSE LET h == rleDecodeLoop(src, s, n \div 2)
         IN  IF h.size = 0 \/ h.ub THEN h
             ELSE rleDecodeLoop(src, h, n - n \div 2)

rleDecode(source, size) ==
    LET r == rleDecodeLoop(source, [i |-> 0, dst |-> << >>, size |-> size,
                                    ub |-> FALSE], size)
    IN  [out |-> r.dst, ub |-> r.ub]

(***************************************************************************)
(* The inputs of the RLE round trip: every byte string over {0, 85} of    *)
(* length at most MaxRleLen, and a run or a run-free stretch whose length  *)
(* sits at a boundary of the token formats, between two short strings.     *)
(***************************************************************************)
MaxRleLen == 6
MaxRlePad == 1
RleLens   == {RLE_MAX_COPY - 1, RLE_MAX_COPY, RLE_MAX_COPY + 1,
              RLE_MAX_RUN, RLE_MAX_RUN + 1, RLE_MAX_RUN + 2, RLE_MAX_RUN + 3,
              2 * RLE_MAX_COPY + 1}
\* n bytes without a run: 1, 2, 1, 2, ...
Alt(n) == [i \in 1..n |-> 1 + (i % 2)]
RleInputs ==
    SeqsUpTo({0, 85}, MaxRleLen)
    \cup {p \o m \o s :
            p \in SeqsUpTo({0, 85}, MaxRlePad),
            m \in {Rep(85, n) : n \in RleLens} \cup {Alt(n) : n \in RleLens},
            s \in SeqsUpTo({0, 85}, MaxRlePad) \cup {<<0, 0, 0>>}}

RleInit ==
    /\ rle_pc = "input"
    /\ rle_src \in RleInputs
    /\ rle_enc = << >>
    /\ rle_dec = [out |-> << >>, ub |-> FALSE]
    /\ Others("rle")

\* rleEncode on the input
RleEncode ==
    /\ rle_pc = "input"
    /\ rle_enc' = rleEncode(rle_src)
    /\ rle_pc' = "encoded"
    /\ UNCHANGED <<rle_src, rle_dec>>
    /\ Frame("rle")

\* rleDecode on the bytes after the header, asked for |x| bytes
RleDecode ==
    /\ rle_pc = "encoded"
    /\ rle_dec' = rleDecode(Drop(rle_enc, HeaderLen(Len(rle_src))), Len(rle_src))
    /\ rle_pc' = "decoded"
    /\ UNCHANGED <<rle_src, rle_enc>>
    /\ Frame("rle")

RleNext == RleEncode \/ RleDecode

SpecRle == RleInit /\ [][RleNext]_vars

\* C2: decoding the RLE encoder's output (the bytes after the header) for
\* |x| bytes reproduces x exactly, without reading outside the buffers.
RleRoundTrip ==
    rle_pc = "decoded" => (rle_dec.out = rle_src /\ ~rle_dec.ub)

\* a decoded input with a run-free stretch longer than one copy token holds,
\* followed by a run
RleRoundTripWitness ==
    /\ rle_pc = "decoded"
    /\ \E i \in 1..Len(rle_src) :
          /\ i > RLE_MAX_COPY
          /\ SubSeq(rle_src, i - RLE_MAX_COPY, i) = Alt(RLE_MAX_COPY + 1)
    /\ SubSeq(rle_src, Len(rle_src) - 2, Len(rle_src)) = <<0, 0, 0>>
    /\ rle_dec.out = rle_src

(***************************************************************************)
(* Huffman codec (source/huff.cpp).                                        *)
(***************************************************************************)

\* huffEncode: the tree is built and printed, then "#if 1 return {}; #endif"
\* returns an empty vector before the output buffer is created
huffEncode(buf) == << >>

\* one iteration (one bit) of the while loop of huffDecode; source holds the
\* tree from offset 0 on; ub: a read outside source
huffDecodeStep(source, s) ==
    LET need == s.mask = 0
        ok1  == ~need \/ InSrc(source, s.in, 4)
        word == IF need /\ ok1
                THEN At(source, s.in) + Shl(At(source, s.in + 1), 8)
                     + Shl(At(source, s.in + 2), 16) + Shl(At(source, s.in + 3), 24)
                ELSE s.word
        mask == IF need THEN Pow2(31) ELSE s.mask
        in1  == IF need THEN s.in + 4 ELSE s.in
    IN  IF ~ok1 \/ ~InSrc(source, s.node, 1) THEN [s EXCEPT !.ub = TRUE]
        ELSE LET tn     == At(source, s.node)
                 one    == (word \div mask) % 2 = 1
                 child  == (s.node - (s.node % 2)) + BitAnd(tn, 31) * 2 + 2
                           + (IF one THEN 1 ELSE 0)
                 isData == BitAnd(tn, IF one THEN 64 ELSE 128) # 0
             IN  IF isData /\ ~InSrc(source, child, 1) THEN [s EXCEPT !.ub = TRUE]
                 ELSE [in |-> in1, word |-> word, mask |-> mask \div 2,
                       node |-> IF isData THEN 1 ELSE child,
                       dst |-> IF isData THEN Append(s.dst, At(source, child))
                               ELSE s.dst,
                       size |-> IF isData THEN s.size - 1 ELSE s.size,
                       ub |-> FALSE]

RECURSIVE huffDecodeLoop(_, _, _)
huffDecodeLoop(source, s, n) ==
    IF s.size = 0 \/ s.ub \/ n = 0 THEN s
    ELSE IF n = 1 THEN huffDecodeStep(source, s)
    ELSE LET h == huffDecodeLoop(source, s, n \div 2)
         IN  IF h.size = 0 \/ h.ub THEN h
             ELSE huffDecodeLoop(source, h, n - n \div 2)

\* huffDecode; every iteration consumes one bit of source, so it ends within
\* 8 * Len(source) + 1 iterations, by size = 0 or by a read outside source
huffDecode(source, size) ==
    IF ~InSrc(source, 0, 1)
    THEN [out |-> << >>, ub |-> TRUE]
    ELSE LET r == huffDecodeLoop(source,
                     [in |-> (At(source, 0) + 1) * 2, word |-> 0, mask |-> 0,
                      node |-> 1, dst |-> << >>, size |-> size, ub |-> FALSE],
                     8 * Len(source) + 1)
         IN  [out |-> r.dst, ub |-> r.ub]

MaxHuffLen == 6
HuffInputs == SeqsUpTo({0, 85}, MaxHuffLen) \ {<< >>}

HuffInit ==
    /\ huff_pc = "input"
    /\ huff_src \in HuffInputs
    /\ huff_enc = << >>
    /\ huff_dec = [out |-> << >>, ub |-> FALSE]
    /\ Others("huff")

\* huffEncode on the input
HuffEncode ==
    /\ huff_pc = "input"
    /\ huff_enc' = huffEncode(huff_src)
    /\ huff_pc' = "encoded"
    /\ UNCHANGED <<huff_src, huff_dec>>
    /\ Frame("huff")

\* write_image_data with COMPRESSION_HUFF: an empty buffer is
\* "Failed to compress data"
HuffWrite ==
    /\ huff_pc = "encoded"
    /\ huff_pc' = IF huff_enc = << >> THEN "failed" ELSE "written"
    /\ UNCHANGED <<huff_src, huff_enc, huff_dec>>
    /\ Frame("huff")

\* huffDecode on the bytes after the header, asked for |x| bytes; a read
\* outside the buffer leaves any bytes in the output
HuffDecode ==
    /\ huff_pc = "encoded"
    /\ LET r == huffDecode(Drop(huff_enc, HeaderLen(Len(huff_src))), Len(huff_src))
       IN  IF r.ub
           THEN \E b \in {0, 85} :
                   huff_dec' = [out |-> r.out \o Rep(b, Len(huff_src) - Len(r.out)),
                                ub |-> TRUE]
           ELSE huff_dec' = r
    /\ huff_pc' = "decoded"
    /\ UNCHANGED <<huff_src, huff_enc>>
    /\ Frame("huff")

HuffNext == HuffEncode \/ HuffWrite \/ HuffDecode

SpecHuff == HuffInit /\ [][HuffNext]_vars

\* C3: for every non-empty x, huffEncode(x) yields a stream (header, tree,
\* bitstream) from which huffDecode, asked for |x| bytes, reproduces x.
HuffRoundTrip ==
    /\ huff_pc \in {"encoded", "decoded"} => Len(huff_enc) >= HeaderLen(Len(huff_src)) + 2
    /\ huff_pc = "decoded" => (huff_dec.out = huff_src /\ ~huff_dec.ub)

(***************************************************************************)
(* write_image_data and the compression it selects (source/tex3ds.cpp).    *)
(***************************************************************************)

\* compressNone: the header, the data, padding to 4 bytes
compressNone(buf) == PadTo4(compressionHeader(0, Len(buf)) \o buf)

\* the table compress_funcs of compressAuto, in its order
compress_funcs == <<"compressNone", "lzssEncode", "lz11Encode", "rleEncode">>

\* the same step taking an output of equal size as well
auto_step_eq(best, output) ==
    IF best = << >> \/ (output # << >> /\ Len(output) <= Len(best))
    THEN output ELSE best

\* "if (best.empty () || (!output.empty () && output.size () < best.size ()))
\*      best.swap (output)"
auto_step(best, output) ==
    IF best = << >> \/ (output # << >> /\ Len(output) < Len(best))
    THEN output ELSE best

\* a call through a pointer to one of the compression routines, and the loop
\* of compressAuto from the k-th routine of the table on (each output is
\* computed once)
RECURSIVE compress(_, _), auto_loop(_, _, _)
compress(f, buf) ==
    CASE f = "compressNone" -> compressNone(buf)
      [] f \in {"lzssEncode", "lz11Encode"} ->
            lzssCommonEncode(buf, IF f = "lzssEncode" THEN "LZ10" ELSE "LZ11")
      [] f = "rleEncode"    -> rleEncode(buf)
      [] f = "huffEncode"   -> huffEncode(buf)
      [] f = "compressAuto" -> auto_loop(buf, << >>, 1)

auto_loop(buf, best, k) ==
    IF k > Len(compress_funcs) THEN best
    ELSE CHOOSE r \in {auto_loop(buf, auto_step(best, output), k + 1) :
                          output \in {compress(compress_funcs[k], buf)}} : TRUE

compressAuto(buf) == compress("compressAuto", buf)

\* the routine write_image_data selects for a compression format
compressOf(format) ==
    CASE format = "COMPRESSION_NONE" -> "compressNone"
      [] format = "COMPRESSION_LZ10" -> "lzssEncode"
      [] format = "COMPRESSION_LZ11" -> "lz11Encode"
      [] format = "COMPRESSION_RLE"  -> "rleEncode"
      [] format = "COMPRESSION_HUFF" -> "huffEncode"
      [] format = "COMPRESSION_AUTO" -> "compressAuto"

CompressionFormats ==
    {"COMPRESSION_NONE", "COMPRESSION_LZ10", "COMPRESSION_LZ11",
     "COMPRESSION_RLE", "COMPRESSION_HUFF", "COMPRESSION_AUTO"}

\* image data: short strings, a run, an alternation, runs of four
Runs4(n) == [i \in 1..n |-> (i - 1) \div 4]
MaxWrLen == 3
WrInputs ==
    SeqsUpTo({0, 85}, MaxWrLen)
    \cup {Rep(85, n) : n \in {16, 40}}
    \cup {[i \in 1..n |-> 1 + (i % 2)] : n \in {16, 40}}
    \cup {Runs4(n) : n \in {16, 40}}

WrInit ==
    /\ wr_pc = "encoded"
    /\ compression_format \in CompressionFormats
    /\ wr_data \in WrInputs
    /\ wr_buffer = << >>
    /\ Others("wr")

\* write_image_data: compress image_data with the selected routine; an empty
\* buffer is "Failed to compress data", otherwise the buffer is written
WriteImageData ==
    /\ wr_pc = "encoded"
    /\ \E buffer \in {compress(compressOf(compression_format), wr_data)} :
          /\ wr_buffer' = buffer
          /\ wr_pc' = IF buffer = << >> THEN "throw" ELSE "written"
    /\ UNCHANGED <<compression_format, wr_data>>
    /\ Frame("wr")

WrNext == WriteImageData

SpecWrite == WrInit /\ [][WrNext]_vars

\* C16: the buffer compressAuto returns is the output of one of the routines
\* it runs (none, LZ10, LZ11, RLE, in this order), no routine it runs gives
\* a shorter output, and every routine before it in the order gives a longer
\* one.
AutoSmallest ==
    (wr_pc # "encoded" /\ compression_format = "COMPRESSION_AUTO") =>
        \E outputs \in {[j \in 1..Len(compress_funcs) |->
                            compress(compress_funcs[j], wr_data)]} :
            \E k \in 1..Len(compress_funcs) :
                /\ wr_buffer = outputs[k]
                /\ \A j \in 1..Len(compress_funcs) :
                      /\ Len(wr_buffer) <= Len(outputs[j])
                      /\ j < k => Len(wr_buffer) < Len(outputs[j])

\* automatic compression returned the LZ10 stream (type byte 0x10) where the
\* LZ11 and RLE streams have the same size and the stream of "none" is longer
AutoSmallestWitness ==
    /\ wr_pc = "written" /\ compression_format = "COMPRESSION_AUTO"
    /\ wr_buffer[1] = 16
    /\ Len(wr_buffer) < Len(wr_data)
    /\ \A f \in {"lz11Encode", "rleEncode"} :
          Len(compress(f, wr_data)) = Len(wr_buffer)

(***************************************************************************)
(* The C sources (source/main.cpp, source/rle.c, include/compress.h): the  *)
(* image data written with a "fake" header or through rle_encode.          *)
(***************************************************************************)
COMPRESSION_HEADER_SIZE == 5

\* compression_header: header[0] .. header[4] are assigned whatever the size
\* n of the caller's array; oob holds the values assigned past its end
compression_header(n, type, size) ==
    LET w == <<type, U8(size), U8(Shr(size, 8)), U8(Shr(size, 16)),
               U8(Shr(size, 24))>>
    IN  [header |-> SubSeq(w, 1, Min(n, COMPRESSION_HEADER_SIZE)),
         oob    |-> SubSeq(w, n + 1, COMPRESSION_HEADER_SIZE)]

\* rle_encode: "uint8_t header[4]", compression_header, the push of
\* sizeof(header) bytes, the loop of rleEncode, buffer_pad to 4 bytes
rle_encode(buf) ==
    LET h == compression_header(4, 48, Len(buf))
        r == rle_loop(buf, [src |-> 0, save |-> 0, save_len |-> 0,
                            result |-> h.header], Len(buf))
    IN  [oob |-> h.oob,
         out |-> PadTo4(IF r.save_len > 0
                        THEN r.result \o RleCopy(buf, r.save, r.save_len)
                        ELSE r.result)]

\* the "fake" header of main.cpp ("uint8_t header[4]") and the raw data
fake(buf) ==
    LET h == compression_header(4, 0, Len(buf))
    IN  [oob |-> h.oob, out |-> h.header \o buf]

MaxHdrLen == 3
HdrInputs ==
    SeqsUpTo({0, 85}, MaxHdrLen) \cup {Rep(85, n) : n \in {255, 256, 257}}

HdrInit ==
    /\ hd_pc = "encoded"
    /\ hd_format \in {"COMPRESSION_NONE", "COMPRESSION_FAKE", "COMPRESSION_RLE"}
    /\ hd_buf \in HdrInputs
    /\ hd_oob = << >>
    /\ hd_file = << >>
    /\ Others("hd")

\* the output stage of main.cpp: the fake header, the compression routine,
\* the write of the data.  An assignment past the end of a header array is
\* undefined: the run goes on with the stream as computed, or is aborted.
WriteData ==
    /\ hd_pc = "encoded"
    /\ \E r \in {CASE hd_format = "COMPRESSION_NONE" -> [oob |-> << >>, out |-> hd_buf]
                   [] hd_format = "COMPRESSION_FAKE" -> fake(hd_buf)
                   [] hd_format = "COMPRESSION_RLE"  -> rle_encode(hd_buf)} :
          /\ hd_oob' = r.oob
          /\ \/ hd_pc' = "written" /\ hd_file' = r.out
             \/ r.oob # << >> /\ hd_pc' = "aborted" /\ hd_file' = << >>
    /\ UNCHANGED <<hd_format, hd_buf>>
    /\ Frame("hd")

HdrNext == WriteData

SpecHeader == HdrInit /\ [][HdrNext]_vars

\* C17 as stated: a compressed stream of fewer than 2^24 bytes of data begins
\* with the type byte and the size as three little-endian bytes, every byte
\* of the header was assigned inside the encoder's header array, and the
\* encoded data starts at offset 4.
HeaderFourBytes ==
    (hd_pc # "encoded" /\ hd_format # "COMPRESSION_NONE") =>
        /\ hd_oob = << >>
        /\ hd_pc = "written"
        /\ Len(hd_file) >= 4
        /\ SubSeq(hd_file, 1, 4)
             = <<IF hd_format = "COMPRESSION_RLE" THEN 48 ELSE 0,
                 Len(hd_buf) % 256, (Len(hd_buf) \div 256) % 256,
                 (Len(hd_buf) \div 65536) % 256>>
        /\ IF hd_format = "COMPRESSION_RLE"
           THEN rleDecode(Drop(hd_file, 4), Len(hd_buf)).out = hd_buf
           ELSE Drop(hd_file, 4) = hd_buf

(***************************************************************************)
(* The tile encoders (source/encode.cpp, include/quantum.h).  A colour is  *)
(* [red, green, blue, alpha] in quanta, alpha being alphaQuantum (0 is     *)
(* opaque).  work.p is the pixel cache of the whole image, row-major, and  *)
(* a work unit starts at the offset base of its tile.                      *)
(***************************************************************************)
QuantumRange == 65535

\* quantum_to_bits<bits>: the result is a uint8_t
\* quantum_to_bits rounding to the nearest value
quantum_to_bits_round(bits, v) ==
    U8((Pow2(bits) * v + QuantumRange \div 2) \div (QuantumRange + 1))
quantum_to_bits(bits, v) == U8((Pow2(bits) * v) \div (QuantumRange + 1))

bits_to_quantum(bits, v) == (v * QuantumRange) \div (Pow2(bits) - 1)

quantize(bits, v) == bits_to_quantum(bits, quantum_to_bits(bits, v))

alpha(c) == QuantumRange - c.alpha

Black == [red |-> 0, green |-> 0, blue |-> 0, alpha |-> 0]
White == [red |-> QuantumRange, green |-> QuantumRange, blue |-> QuantumRange,
          alpha |-> 0]
Clear == [red |-> QuantumRange, green |-> QuantumRange, blue |-> QuantumRange,
          alpha |-> QuantumRange]
Palette == {Black, White, Clear}

\* luminance: on the gray levels 0 and QuantumRange of the palette the
\* gamma-corrected BT.709 sum is the level itself
luminance(c) == c.green

Gray(l, a) == [red |-> l, green |-> l, blue |-> l, alpha |-> a]

\* the bytes a per-pixel encoder pushes for the colour c
PixelOut(process, c) ==
    CASE process = "rgba8888" ->
            <<quantum_to_bits(8, alpha(c)), quantum_to_bits(8, c.blue),
              quantum_to_bits(8, c.green), quantum_to_bits(8, c.red)>>
      [] process = "rgb888" ->
            <<quantum_to_bits(8, c.blue), quantum_to_bits(8, c.green),
              quantum_to_bits(8, c.red)>>
      [] process = "rgba5551" ->
            LET v == Shl(quantum_to_bits(5, c.red), 11)
                     + Shl(quantum_to_bits(5, c.green), 6)
                     + Shl(quantum_to_bits(5, c.blue), 1)
                     + quantum_to_bits(1, alpha(c))
            IN  <<U8(v), U8(Shr(v, 8))>>
      [] process = "rgb565" ->
            LET v == Shl(quantum_to_bits(5, c.red), 11)
                     + Shl(quantum_to_bits(6, c.green), 5)
                     + quantum_to_bits(5, c.blue)
            IN  <<U8(v), U8(Shr(v, 8))>>
      [] process = "rgba4444" ->
            LET v == quantum_to_bits(4, alpha(c))
                     + Shl(quantum_to_bits(4, c.blue), 4)
                     + Shl(quantum_to_bits(4, c.green), 8)
                     + Shl(quantum_to_bits(4, c.red), 12)
            IN  <<U8(v), U8(Shr(v, 8))>>
      [] process = "la88" ->
            <<quantum_to_bits(8, alpha(c)), quantum_to_bits(8, luminance(c))>>
      [] process = "hilo88" ->
            <<quantum_to_bits(8, c.green), quantum_to_bits(8, c.red)>>
      [] process = "l8" -> <<quantum_to_bits(8, luminance(c))>>
      [] process = "a8" -> <<quantum_to_bits(8, alpha(c))>>
      [] process = "la44" ->
            <<U8(Shl(quantum_to_bits(4, luminance(c)), 4)
                 + quantum_to_bits(4, alpha(c)))>>

\* the colour a per-pixel encoder stores back for the preview
PixelPreview(process, c) ==
    CASE process = "rgba8888" ->
            [red |-> quantize(8, c.red), green |-> quantize(8, c.green),
             blue |-> quantize(8, c.blue), alpha |-> quantize(8, c.alpha)]
      [] process = "rgb888" ->
            [red |-> quantize(8, c.red), green |-> quantize(8, c.green),
             blue |-> quantize(8, c.blue), alpha |-> 0]
      [] process = "rgba5551" ->
            [red |-> quantize(5, c.red), green |-> quantize(5, c.green),
             blue |-> quantize(5, c.blue), alpha |-> quantize(1, c.alpha)]
      [] process = "rgb565" ->
            [red |-> quantize(5, c.red), green |-> quantize(6, c.green),
             blue |-> quantize(5, c.blue), alpha |-> 0]
      [] process = "rgba4444" ->
            [red |-> quantize(4, c.red), green |-> quantize(4, c.green),
             blue |-> quantize(4, c.blue), alpha |-> quantize(4, c.alpha)]
      [] process = "la88" ->
            Gray(quantize(8, luminance(c)), quantize(8, c.alpha))
      [] process = "hilo88" ->
            [red |-> quantize(8, c.red), green |-> quantize(8, c.green),
             blue |-> 0, alpha |-> 0]
      [] process = "l8" -> Gray(quantize(8, luminance(c)), 0)
      [] process = "a8" ->
            [red |-> 0, green |-> 0, blue |-> 0, alpha |-> quantize(8, c.alpha)]
      [] process = "la44" ->
            Gray(quantize(4, luminance(c)), quantize(4, c.alpha))

PerPixel ==
    {"rgba8888", "rgb888", "rgba5551", "rgb565", "rgba4444", "la88", "hilo88",
     "l8", "a8", "la44"}

\* work.p[k]: a read past the end of the pixel cache gives any colour (junk)
Px(p, k, junk) == IF k < Len(p) THEN At(p, k) ELSE junk

\* work.p[k] = c; oob: an assignment past the end of the pixel cache
SetPx(s, k, c) ==
    IF k < Len(s.p) THEN [s EXCEPT !.p[k + 1] = c] ELSE [s EXCEPT !.oob = TRUE]

\* iteration (j, i) of rgba8888 .. la44
pixel_step(work, s, j, i) ==
    LET k  == work.base + j * work.stride + i
        c  == Px(s.p, k, work.junk)
        s1 == IF work.output
              THEN [s EXCEPT !.result = s.result \o PixelOut(work.process, c)]
              ELSE s
    IN  IF work.preview THEN SetPx(s1, k, PixelPreview(work.process, c)) ELSE s1

\* iteration (j, i) of l4 and a4: the colours at i and i + 1
pair_step(work, s, j, i) ==
    LET k  == work.base + j * work.stride + i
        c1 == Px(s.p, k, work.junk)
        c2 == Px(s.p, k + 1, work.junk)
        b  == IF work.process = "l4"
              THEN U8(quantum_to_bits(4, luminance(c1))
                      + Shl(quantum_to_bits(4, luminance(c2)), 4))
              ELSE U8(BitOr(quantum_to_bits(8, alpha(c1)),
                            Shl(quantum_to_bits(8, alpha(c2)), 4)))
        s1 == IF work.output THEN [s EXCEPT !.result = Append(s.result, b)]
              ELSE s
        p1 == IF work.process = "l4"
              THEN Gray(quantize(4, luminance(c1)), 0)
              ELSE [red |-> 0, green |-> 0, blue |-> 0,
                    alpha |-> quantize(4, c1.alpha)]
        p2 == IF work.process = "l4"
              THEN Gray(quantize(4, luminance(c2)), 0)
              ELSE [red |-> 0, green |-> 0, blue |-> 0,
                    alpha |-> quantize(4, c2.alpha)]
    IN  IF work.preview THEN SetPx(SetPx(s1, k, p1), k + 1, p2) ELSE s1

\* the loops "for (j = 0; j < 8; ++j) for (i = 0; i < 8; ++i)", the same in
\* all of rgba8888 .. a4: the count iterations from the n-th on (iteration n
\* is j = n / 8, i = n % 8); each step is taken once
RECURSIVE tile_loop(_, _, _, _)
tile_loop(work, s, n, count) ==
    IF count = 1
    THEN IF work.process \in PerPixel
         THEN pixel_step(work, s, n \div 8, n % 8)
         ELSE pair_step(work, s, n \div 8, n % 8)
    ELSE CHOOSE r \in
            {tile_loop(work, h, n + count \div 2, count - count \div 2) :
               h \in {tile_loop(work, s, n, count \div 2)}} : TRUE

\* out_alpha of etc1a4 for the 4x4 block at (j, i): nibble y % 2 of byte
\* 2 * x + y / 2
out_alpha(work, p, j, i) ==
    [n \in 1..8 |->
        LET x == (n - 1) \div 2
            y == 2 * ((n - 1) % 2)
            a(yy) == quantum_to_bits(4,
                        alpha(Px(p, work.base + (j + yy) * work.stride + i + x,
                                 work.junk)))
        IN  U8(a(y) + Shl(a(y + 1), 4))]

\* the 4x4 block at (j, i) of etc1 and etc1a4; rg_etc1::pack_etc1_block is a
\* library routine, its 8 bytes are work.packed[block]; the preview stores
\* the quantized colours of the block as unpack_etc1_block returns them
block_step(work, s, j, i) ==
    LET out_block == work.packed[(j \div 4) * 2 + (i \div 4)]
        s1 == IF ~work.output THEN s
              ELSE [s EXCEPT !.result =
                      s.result
                      \o (IF work.process = "etc1a4"
                          THEN out_alpha(work, s.p, j, i) ELSE << >>)
                      \o [n \in 1..8 |-> out_block[8 - n + 1]]]
        cells == {<<y, x>> : y \in 0..3, x \in 0..3}
    IN  IF ~work.preview THEN s1
        ELSE [s1 EXCEPT !.p =
                [n \in 1..Len(s.p) |->
                    IF \E yx \in cells :
                          n - 1 = work.base + (j + yx[1]) * work.stride + i + yx[2]
                    THEN [red   |-> quantize(8, s.p[n].red),
                          green |-> quantize(8, s.p[n].green),
                          blue  |-> quantize(8, s.p[n].blue),
                          alpha |-> IF work.process = "etc1a4"
                                    THEN quantize(4, s.p[n].alpha) ELSE 0]
                    ELSE s.p[n]]]

\* the loops "for (j = 0; j < 8; j += 4) for (i = 0; i < 8; i += 4)" of etc1
\* and etc1a4 from the n-th block on
RECURSIVE etc_loop(_, _, _)
etc_loop(work, s, n) ==
    IF n >= 4 THEN s
    ELSE CHOOSE r \in
            {etc_loop(work, t, n + 1) :
               t \in {block_step(work, s, 4 * (n \div 2), 4 * (n % 2))}} : TRUE

\* work.process (work)
process(work) ==
    LET s == [result |-> << >>, p |-> work.p, oob |-> FALSE]
    IN  IF work.process \in {"etc1", "etc1a4"} THEN etc_loop(work, s, 0)
        ELSE tile_loop(work, s, 0, 64)

(***************************************************************************)
(* finalize_process_format and has_alpha (source/tex3ds.cpp).  An image is *)
(* the sequence of its pixels' colours.                                    *)
(***************************************************************************)

\* quantumAlpha: "get alpha instead of opacity"
quantumAlpha(c) == QuantumRange - c.alpha

\* has_alpha<bits>: "if (quantum_to_bits<bits> (quantumAlpha (c))) return true"
has_alpha(bits, img) ==
    \E i \in 1..Len(img) : quantum_to_bits(bits, quantumAlpha(img[i])) # 0

\* std::any_of (std::begin (images), std::end (images), has_alpha<bits>)
any_of_has_alpha(bits, images) ==
    \E k \in 1..Len(images) : has_alpha(bits, images[k])

finalize_process_format(format, images) ==
    LET f == IF format = "AUTO_L8" /\ any_of_has_alpha(8, images) THEN "LA88"
             ELSE IF format = "AUTO_L4" /\ any_of_has_alpha(4, images) THEN "LA44"
             ELSE IF format = "AUTO_ETC1" /\ any_of_has_alpha(4, images)
                  THEN "ETC1A4"
             ELSE format
    IN  IF f = "AUTO_L8" THEN "L8"
        ELSE IF f = "AUTO_L4" THEN "L4"
        ELSE IF f = "AUTO_ETC1" THEN "ETC1"
        ELSE f

ProcessFormats ==
    {"RGBA8888", "RGB888", "RGBA5551", "RGB565", "RGBA4444", "LA88", "HILO88",
     "L8", "A8", "LA44", "L4", "A4", "ETC1", "ETC1A4",
     "AUTO_L8", "AUTO_L4", "AUTO_ETC1"}

\* alpha levels: transparent, below one step of 8 and of 4 bits, one step of
\* 8 bits below opaque, opaque
AlphaLevels == {0, 255, 4095, 65279, QuantumRange}
MaxFmtPixels == 2
FmtImages ==
    UNION {[1..n -> {Gray(0, QuantumRange - a) : a \in AlphaLevels}] :
             n \in 1..MaxFmtPixels}
FmtImageLists ==
    {<<img>> : img \in FmtImages}
    \cup {<<a, b>> : a \in {i \in FmtImages : Len(i) = 1},
                     b \in {i \in FmtImages : Len(i) = 1}}

FmtInit ==
    /\ fmt_pc = "parsed"
    /\ fmt_option \in ProcessFormats
    /\ process_format = fmt_option
    /\ fmt_images \in FmtImageLists
    /\ Others("fmt")

\* main: finalize_process_format (images)
FinalizeProcessFormat ==
    /\ fmt_pc = "parsed"
    /\ process_format' = finalize_process_format(process_format, fmt_images)
    /\ fmt_pc' = "finalized"
    /\ UNCHANGED <<fmt_option, fmt_images>>
    /\ Frame("fmt")

FmtNext == FinalizeProcessFormat

SpecFormat == FmtInit /\ [][FmtNext]_vars

\* C19 as stated: auto-l8 / auto-l4 / auto-etc1 end as L8 / L4 / ETC1 when
\* every pixel's alpha, quantized to 8 / 4 / 4 bits, is fully opaque, and as
\* LA8 / LA4 / ETC1A4 otherwise; has_alpha is true exactly when some
\* quantized pixel is not fully opaque.
AutoFormatByOpacity ==
    LET opaque(bits, img) ==
            \A i \in 1..Len(img) :
                quantum_to_bits(bits, quantumAlpha(img[i])) = Pow2(bits) - 1
        allOpaque(bits) ==
            \A k \in 1..Len(fmt_images) : opaque(bits, fmt_images[k])
    IN  /\ \A k \in 1..Len(fmt_images), bits \in {4, 8} :
              has_alpha(bits, fmt_images[k]) <=> ~opaque(bits, fmt_images[k])
        /\ fmt_pc = "finalized" =>
              /\ fmt_option = "AUTO_L8" =>
                    process_format = IF allOpaque(8) THEN "L8" ELSE "LA88"
              /\ fmt_option = "AUTO_L4" =>
                    process_format = IF allOpaque(4) THEN "L4" ELSE "LA44"
              /\ fmt_option = "AUTO_ETC1" =>
                    process_format = IF allOpaque(4) THEN "ETC1" ELSE "ETC1A4"

(***************************************************************************)
(* The tile pipeline: process_image and work_thread (source/tex3ds.cpp).   *)
(* A critical section under work_mutex or result_mutex is one step.  A     *)
(* work unit is [sequence, level, j, i]; its encoded result is labelled by *)
(* the tile it came from.                                                   *)
(***************************************************************************)

\* WorkUnit::operator<: "greater-than for min-heap"
WorkUnitLess(a, b) == a.sequence > b.sequence

\* std::push_heap: the last element sifts up from position n
RECURSIVE push_heap(_, _)
push_heap(h, n) ==
    IF n > 1 /\ WorkUnitLess(h[n \div 2], h[n])
    THEN push_heap([h EXCEPT ![n] = h[n \div 2], ![n \div 2] = h[n]], n \div 2)
    ELSE h

\* sift the element at position n down within the first m elements
RECURSIVE sift_down(_, _, _)
sift_down(h, n, m) ==
    LET l == 2 * n
        r == 2 * n + 1
        c == IF r <= m /\ WorkUnitLess(h[l], h[r]) THEN r ELSE l
    IN  IF l <= m /\ WorkUnitLess(h[n], h[c])
        THEN sift_down([h EXCEPT ![n] = h[c], ![c] = h[n]], c, m)
        ELSE h

\* std::pop_heap: the front goes to the back, the rest is a heap again
pop_heap(h) ==
    LET n == Len(h)
    IN  sift_down([h EXCEPT ![1] = h[n], ![n] = h[1]], 1, n - 1)

\* the mipmap queue: the base level, then halves while both dimensions > 8
RECURSIVE mipmaps(_, _, _)
mipmaps(q, width, height) ==
    IF width > 8 /\ height > 8
    THEN mipmaps(Append(q, [width |-> width \div 2, height |-> height \div 2]),
                 width \div 2, height \div 2)
    ELSE q

MaxLogW    == 1
MaxWorkers == 2

TileInit ==
    /\ tp = [pc |-> "spawn", level |-> 0, width |-> 0, height |-> 0,
             j |-> 0, i |-> 0, num_work |-> 0, num_result |-> 0, joined |-> 0]
    /\ \E a \in 0..MaxLogW, height \in {8, 16}, filter \in BOOLEAN :
          LET base == <<[width |-> 8 * Pow2(a), height |-> height]>>
          IN  img_queue = IF filter THEN mipmaps(base, 8 * Pow2(a), height)
                          ELSE base
    /\ work_queue = << >> /\ result_queue = << >>
    /\ work_done = FALSE /\ image_data = << >>
    /\ \E hardware_concurrency \in 0..MaxWorkers :
          /\ w_pc = [k \in 1..hardware_concurrency |-> "unstarted"]
          /\ w_unit = [k \in 1..hardware_concurrency |-> << >>]
    /\ Others("tile")

\* "create worker threads": hardware_concurrency () threads enter work_thread
TileSpawn ==
    /\ tp.pc = "spawn"
    /\ w_pc' = [k \in DOMAIN w_pc |-> "lock"]
    /\ tp' = [tp EXCEPT !.pc = "pop"]
    /\ UNCHANGED <<img_queue, work_queue, result_queue, work_done, image_data, w_unit>>
    /\ Frame("tile")

\* "while (!img_queue.empty ())": take the next mipmap level, or go on to join
TilePop ==
    /\ tp.pc = "pop"
    /\ IF img_queue = << >>
       THEN /\ tp' = [tp EXCEPT !.pc = "join", !.joined = 0]
            /\ UNCHANGED img_queue
       ELSE /\ tp' = [tp EXCEPT !.pc = "queue", !.level = @ + 1,
                                !.width = Head(img_queue).width,
                                !.height = Head(img_queue).height,
                                !.j = 0, !.i = 0, !.num_work = 0]
            /\ img_queue' = Tail(img_queue)
    /\ UNCHANGED <<work_queue, result_queue, work_done, image_data, w_pc, w_unit>>
    /\ Frame("tile")

\* work_cond.notify_one (): one waiting worker, if any, goes back to its lock
NotifyOneWorker(pcs) ==
    IF \E k \in DOMAIN pcs : pcs[k] = "wait"
    THEN {[pcs EXCEPT ![k] = "lock"] : k \in {x \in DOMAIN pcs : pcs[x] = "wait"}}
    ELSE {pcs}

\* one iteration of the tile loops: create the work unit and queue it
TileQueue ==
    /\ tp.pc = "queue" /\ tp.j < tp.height
    /\ work_queue' = Append(work_queue, [sequence |-> tp.num_work,
                                          level |-> tp.level, j |-> tp.j, i |-> tp.i])
    /\ w_pc' \in NotifyOneWorker(w_pc)
    /\ tp' = IF tp.i + 8 < tp.width
             THEN [tp EXCEPT !.num_work = @ + 1, !.i = @ + 8]
             ELSE [tp EXCEPT !.num_work = @ + 1, !.i = 0, !.j = @ + 8]
    /\ UNCHANGED <<img_queue, result_queue, work_done, image_data, w_unit>>
    /\ Frame("tile")

\* after the tile loops: "if (img_queue.empty ())" no more work is coming
TileQueued ==
    /\ tp.pc = "queue" /\ tp.j >= tp.height
    /\ IF img_queue = << >>
       THEN /\ work_done' = TRUE
            /\ w_pc' = [k \in DOMAIN w_pc |->
                          IF w_pc[k] = "wait" THEN "lock" ELSE w_pc[k]]
       ELSE UNCHANGED <<work_done, w_pc>>
    /\ tp' = [tp EXCEPT !.pc = "gather", !.num_result = 0]
    /\ UNCHANGED <<img_queue, work_queue, result_queue, image_data, w_unit>>
    /\ Frame("tile")

\* the gather loop's wait condition is over
GatherAny(rq, num_result) == rq # << >>
GatherReady(rq, num_result) ==
    ~(rq = << >> \/ rq[1].sequence # num_result)

\* one iteration of the gather loop: wait, or pop the front and append it
TileGather ==
    /\ tp.pc = "gather" /\ tp.num_result < tp.num_work
    /\ IF GatherReady(result_queue, tp.num_result)
       THEN /\ result_queue' = SubSeq(pop_heap(result_queue), 1, Len(result_queue) - 1)
            /\ image_data' = Append(image_data,
                                    pop_heap(result_queue)[Len(result_queue)])
            /\ tp' = [tp EXCEPT !.num_result = @ + 1]
       ELSE /\ tp' = [tp EXCEPT !.pc = "gather_wait"]
            /\ UNCHANGED <<result_queue, image_data>>
    /\ UNCHANGED <<img_queue, work_queue, work_done, w_pc, w_unit>>
    /\ Frame("tile")

\* the gather loop is over: on to the next level
TileGathered ==
    /\ tp.pc = "gather" /\ tp.num_result >= tp.num_work
    /\ tp' = [tp EXCEPT !.pc = "pop"]
    /\ UNCHANGED <<img_queue, work_queue, result_queue, work_done, image_data,
                   w_pc, w_unit>>
    /\ Frame("tile")

\* "join all the worker threads", from the back of the vector
TileJoin ==
    /\ tp.pc = "join"
    /\ IF tp.joined < Len(w_pc)
       THEN /\ w_pc[Len(w_pc) - tp.joined] = "exit"
            /\ tp' = [tp EXCEPT !.joined = @ + 1]
       ELSE tp' = [tp EXCEPT !.pc = "done"]
    /\ UNCHANGED <<img_queue, work_queue, result_queue, work_done, image_data,
                   w_pc, w_unit>>
    /\ Frame("tile")

\* work_thread, holding work_mutex: wait, quit or take a work unit
WorkerLock(k) ==
    /\ w_pc[k] = "lock"
    /\ IF ~work_done /\ work_queue = << >>
       THEN /\ w_pc' = [w_pc EXCEPT ![k] = "wait"]
            /\ UNCHANGED <<work_queue, w_unit>>
       ELSE IF work_done /\ work_queue = << >>
       THEN /\ w_pc' = [w_pc EXCEPT ![k] = "exit"]
            /\ UNCHANGED <<work_queue, w_unit>>
       ELSE /\ w_unit' = [w_unit EXCEPT ![k] = <<Head(work_queue)>>]
            /\ work_queue' = Tail(work_queue)
            /\ w_pc' = [w_pc EXCEPT ![k] = "process"]
    /\ UNCHANGED <<tp, img_queue, result_queue, work_done, image_data>>
    /\ Frame("tile")

\* work_thread: process the unit, push it on the result heap, notify_one
WorkerFinish(k) ==
    /\ w_pc[k] = "process"
    /\ result_queue' = push_heap(result_queue \o w_unit[k], Len(result_queue) + 1)
    /\ tp' = IF tp.pc = "gather_wait" THEN [tp EXCEPT !.pc = "gather"] ELSE tp
    /\ w_unit' = [w_unit EXCEPT ![k] = << >>]
    /\ w_pc' = [w_pc EXCEPT ![k] = "lock"]
    /\ UNCHANGED <<img_queue, work_queue, work_done, image_data>>
    /\ Frame("tile")

\* a condition variable may wake a waiter spuriously
SpuriousWakeup ==
    /\ \/ /\ tp.pc = "gather_wait"
          /\ tp' = [tp EXCEPT !.pc = "gather"]
          /\ UNCHANGED w_pc
       \/ /\ \E k \in DOMAIN w_pc :
                w_pc[k] = "wait" /\ w_pc' = [w_pc EXCEPT ![k] = "lock"]
          /\ UNCHANGED tp
    /\ UNCHANGED <<img_queue, work_queue, result_queue, work_done, image_data, w_unit>>
    /\ Frame("tile")

TileNext ==
    \/ TileSpawn \/ TilePop \/ TileQueue \/ TileQueued
    \/ TileGather \/ TileGathered \/ TileJoin
    \/ \E k \in DOMAIN w_pc : WorkerLock(k) \/ WorkerFinish(k)
    \/ SpuriousWakeup

SpecTile == TileInit /\ [][TileNext]_vars

\* the results of one level in raster order: rows top to bottom, tiles left
\* to right
LevelTiles(level, width, height) ==
    [n \in 1..((width \div 8) * (height \div 8)) |->
        [sequence |-> n - 1, level |-> level,
         j |-> 8 * ((n - 1) \div (width \div 8)),
         i |-> 8 * ((n - 1) % (width \div 8))]]

\* the results of the levels before level l, whose dimensions are the current
\* ones doubled level by level
RECURSIVE TilesBefore(_)
TilesBefore(l) ==
    IF l <= 1 THEN << >>
    ELSE TilesBefore(l - 1)
         \o LevelTiles(l - 1, tp.width * Pow2(tp.level - l + 1),
                       tp.height * Pow2(tp.level - l + 1))

\* C4: for every level, image_data holds the results of the level's tiles in
\* ascending sequence (raster) order, each exactly once, whatever the order
\* in which the workers finish: the levels gathered so far are complete, and
\* the level being gathered is there up to num_result.
TileOrder ==
    tp.pc # "off" =>
        image_data =
            TilesBefore(tp.level)
            \o SubSeq(LevelTiles(tp.level, tp.width, tp.height), 1,
                      IF tp.pc = "queue" THEN 0
                      ELSE IF tp.pc \in {"gather", "gather_wait"} THEN tp.num_result
                      ELSE (tp.width \div 8) * (tp.height \div 8))

\* the gather loop has appended a result and waits for the next one while a
\* later tile, finished out of order, is at the front of the heap
TileOrderWitness ==
    /\ tp.pc = "gather_wait"
    /\ Len(image_data) >= 1
    /\ result_queue # << >>
    /\ result_queue[1].sequence > tp.num_result

\* C25 as stated: the per-tile encoding pipeline is started with
\* max(1, hardware concurrency) worker threads, never zero, so that there is
\* a worker to take the queued tiles.
WorkersNeverZero ==
    tp.pc \notin {"off", "spawn"} =>
        Cardinality({k \in DOMAIN w_pc : w_pc[k] # "unstarted"}) >= 1

\* every thread of the tile pipeline that can take a step is scheduled in
\* the end; a spurious wakeup need not happen
SpecTileFair ==
    /\ SpecTile
    /\ WF_vars(TileSpawn \/ TilePop \/ TileQueue \/ TileQueued \/ TileGather
                \/ TileGathered \/ TileJoin)
    /\ \A k \in 1..MaxWorkers :
          WF_vars(k \in DOMAIN w_pc /\ (WorkerLock(k) \/ WorkerFinish(k)))

\* once work_done has been set under work_mutex and broadcast, every
\* work_thread returns in the end (the other half of C28)
TileWorkersReturn == work_done ~> (\A k \in DOMAIN w_pc : w_pc[k] = "exit")

(***************************************************************************)
(* Swizzle (source/swizzle.cpp).  A tile is the 64 pixels of an 8x8 region *)
(* in region order; an image is its pixels in row-major order.             *)
(***************************************************************************)
\* a table with its first foursome out of order
tableSwapped ==
    << <<2, 16, 8, 4>>,     <<3, 9, 17, 5>>,    <<6, 10, 24, 20>>,
       <<7, 11, 25, 21>>,   <<14, 26, 28, 22>>, <<15, 27, 29, 23>>,
       <<34, 40, 48, 36>>,  <<35, 41, 49, 37>>, <<38, 42, 56, 52>>,
       <<39, 43, 57, 53>>,  <<46, 58, 60, 54>>, <<47, 59, 61, 55>> >>
\* "swizzle foursome table"
table ==
    << <<2, 8, 16, 4>>,     <<3, 9, 17, 5>>,    <<6, 10, 24, 20>>,
       <<7, 11, 25, 21>>,   <<14, 26, 28, 22>>, <<15, 27, 29, 23>>,
       <<34, 40, 48, 36>>,  <<35, 41, 49, 37>>, <<38, 42, 56, 52>>,
       <<39, 43, 57, 53>>,  <<46, 58, 60, 54>>, <<47, 59, 61, 55>> >>

\* a foursome rotated the forward way whatever the flag
foursomeForward(p, entry, reverse) ==
    [p EXCEPT ![entry[1] + 1] = p[entry[2] + 1], ![entry[2] + 1] = p[entry[3] + 1],
              ![entry[3] + 1] = p[entry[4] + 1], ![entry[4] + 1] = p[entry[1] + 1]]
\* the body of the for loops: one foursome, swizzled or unswizzled
foursome(p, entry, reverse) ==
    IF ~reverse
    THEN [p EXCEPT ![entry[1] + 1] = p[entry[2] + 1], ![entry[2] + 1] = p[entry[3] + 1],
                   ![entry[3] + 1] = p[entry[4] + 1], ![entry[4] + 1] = p[entry[1] + 1]]
    ELSE [p EXCEPT ![entry[4] + 1] = p[entry[3] + 1], ![entry[3] + 1] = p[entry[2] + 1],
                   ![entry[2] + 1] = p[entry[1] + 1], ![entry[1] + 1] = p[entry[4] + 1]]

\* the first n foursomes of the table, in order
RECURSIVE foursomes(_, _, _)
foursomes(p, reverse, n) ==
    IF n = 0 THEN p
    ELSE foursome(foursomes(p, reverse, n - 1), table[n], reverse)

\* swizzle (PixelPacket p, bool reverse): the foursomes, then the pairs
swizzle(p, reverse) ==
    LET q == foursomes(p, reverse, Len(table))
    IN  [q EXCEPT ![13] = q[19], ![19] = q[13], ![14] = q[20], ![20] = q[14],
                  ![45] = q[51], ![51] = q[45], ![46] = q[52], ![52] = q[46]]

\* cache.get (i, j, 8, 8): the region's pixels
cacheGet(img, width, i, j) ==
    [k \in 1..64 |-> img[(j + (k - 1) \div 8) * width + i + ((k - 1) % 8) + 1]]

\* swizzle (Magick::Image &img, bool reverse): the first n tiles of the loops
RECURSIVE swizzleImage(_, _, _, _)
swizzleImage(img, width, reverse, n) ==
    IF n = 0 THEN img
    ELSE LET prev == swizzleImage(img, width, reverse, n - 1)
             i    == 8 * ((n - 1) % (width \div 8))
             j    == 8 * ((n - 1) \div (width \div 8))
             p    == swizzle(cacheGet(prev, width, i, j), reverse)
         IN  [m \in 1..Len(img) |->
                LET x == (m - 1) % width
                    y == (m - 1) \div width
                IN  IF x >= i /\ x < i + 8 /\ y >= j /\ y < j + 8
                    THEN p[(y - j) * 8 + (x - i) + 1]
                    ELSE prev[m]]

MaxSwzTiles == 2
MaxSwzOps   == 2

\* images of 8*tw x 8*th pixels: all pixels distinct, or one pixel (among the
\* first 64) set apart from the rest
SwzInit ==
    /\ \E tw \in 1..MaxSwzTiles, th \in 1..MaxSwzTiles :
          /\ sw_width = 8 * tw
          /\ \E c \in 0..64 :
                sw_hist = << [m \in 1..(64 * tw * th) |->
                                IF c = 0 THEN m ELSE IF m = c THEN 1 ELSE 0] >>
    /\ sw_ops = << >>
    /\ Others("swz")

\* swizzle (img, reverse) on the whole image
Swizzle(reverse) ==
    /\ sw_hist # << >> /\ Len(sw_ops) < MaxSwzOps
    /\ sw_hist' = Append(sw_hist,
                         swizzleImage(sw_hist[Len(sw_hist)], sw_width, reverse,
                                      Len(sw_hist[1]) \div 64))
    /\ sw_ops' = Append(sw_ops, reverse)
    /\ UNCHANGED sw_width
    /\ Frame("swz")

SwzNext == Swizzle(FALSE) \/ Swizzle(TRUE)

SpecSwz == SwzInit /\ [][SwzNext]_vars

\* C5: a forward swizzle followed by a reverse swizzle leaves every pixel of
\* an image whose dimensions are multiples of 8 at its original position.
SwzRoundTrip ==
    \A n \in 1..(Len(sw_ops) - 1) :
        (~sw_ops[n] /\ sw_ops[n + 1]) => sw_hist[n + 2] = sw_hist[n]

\* a forward swizzle that moved pixels of a two-tile-wide image, then a reverse
SwzRoundTripWitness ==
    /\ sw_ops = <<FALSE, TRUE>>
    /\ sw_width = 16
    /\ sw_hist[2] # sw_hist[1]
    /\ sw_hist[3] = sw_hist[1]

\* the Morton index of (x, y), x in the even bits
Morton(x, y) ==
    (x % 2) + 2 * (y % 2) + 4 * ((x \div 2) % 2) + 8 * ((y \div 2) % 2)
    + 16 * (x \div 4) + 32 * (y \div 4)

\* C6: after a forward swizzle, in every 8x8 tile the pixel that was at raster
\* index 8*y + x is at tile index Morton(x, y); the first raster row ends up
\* at indices 0, 1, 4, 5, 16, 17, 20, 21.
SwzMorton ==
    \A n \in 1..Len(sw_ops) :
        ~sw_ops[n] =>
            \A t \in 1..(Len(sw_hist[1]) \div 64) :
                LET i      == 8 * ((t - 1) % (sw_width \div 8))
                    j      == 8 * ((t - 1) \div (sw_width \div 8))
                    before == cacheGet(sw_hist[n], sw_width, i, j)
                    after  == cacheGet(sw_hist[n + 1], sw_width, i, j)
                IN  /\ \A x, y \in 0..7 :
                          after[Morton(x, y) + 1] = before[8 * y + x + 1]
                    /\ [x \in 1..8 |-> before[x]]
                         = <<after[1], after[2], after[5], after[6],
                             after[17], after[18], after[21], after[22]>>

\* a forward swizzle of an image of four tiles with all pixels distinct
SwzMortonWitness ==
    /\ sw_ops # << >> /\ ~sw_ops[1]
    /\ Len(sw_hist[1]) = 256
    /\ sw_hist[1][256] = 256
    /\ sw_hist[2] # sw_hist[1]

(***************************************************************************)
(* The tile encoders at work (source/encode.cpp, source/tex3ds.cpp): a     *)
(* work unit on a tile of the swizzled image.                              *)
(***************************************************************************)
EncFormats == PerPixel \cup {"l4", "a4", "etc1", "etc1a4"}
EtcBlocks == {[n \in 1..8 |-> 0], [n \in 1..8 |-> n]}

\* images of 8 rows and 8, 16, .. pixels a row: one colour, or a checkerboard
MaxEncTiles == 2
EncImages ==
    {[n \in 1..(64 * w) |-> c] : w \in 1..MaxEncTiles, c \in Palette}
    \cup {[n \in 1..(64 * w) |-> IF (n + (n - 1) \div (8 * w)) % 2 = 0
                                 THEN Black ELSE Clear] : w \in 1..MaxEncTiles}

\* the pixel of an 8-bit channel triple, as a 16-bit quantum each
Rgb8(r, g, b) ==
    [red |-> 257 * r, green |-> 257 * g, blue |-> 257 * b, alpha |-> 0]

\* a tile whose every row holds the reds 0, 31, 63, .. 223 over G = B = 0
GradientTile ==
    [n \in 1..64 |->
        Rgb8(<<0, 31, 63, 95, 127, 159, 191, 223>>[((n - 1) % 8) + 1], 0, 0)]

\* the formats that read the colour channels as they are (no luminance)
ChannelFormats == {"rgba8888", "rgb888", "rgba5551", "rgb565", "rgba4444", "hilo88"}

\* process_image swizzles the image before its tiles are queued; any image
\* of EncImages is the swizzled form of some image
EncInit ==
    /\ enc_pc = "queued"
    /\ \E format \in EncFormats, output \in BOOLEAN, preview \in BOOLEAN :
       \E img \in EncImages \cup (IF format \in ChannelFormats
                                  THEN {swizzle(GradientTile, FALSE)} ELSE {}) :
          \E tile \in 0..(Len(img) \div 64 - 1) :
             enc_work = [process |-> format, p |-> img,
                         stride |-> Len(img) \div 8, base |-> 8 * tile,
                         output |-> output, preview |-> preview,
                         result |-> << >>]
    /\ enc_oob = FALSE
    /\ Others("enc")

\* work_thread: work.process (work) on a work unit taken from the queue
Process ==
    /\ enc_pc = "queued"
    /\ \E junk \in (IF enc_work.process \in {"l4", "a4"} THEN Palette ELSE {Black}),
          packed \in (IF enc_work.process \in {"etc1", "etc1a4"}
                      THEN [0..3 -> EtcBlocks] ELSE {<< >>}) :
          \E s \in {process([process |-> enc_work.process, p |-> enc_work.p,
                             stride |-> enc_work.stride, base |-> enc_work.base,
                             output |-> enc_work.output,
                             preview |-> enc_work.preview,
                             junk |-> junk, packed |-> packed])} :
             /\ enc_work' = [enc_work EXCEPT !.result = s.result, !.p = s.p]
             /\ enc_oob' = s.oob
    /\ enc_pc' = "done"
    /\ Frame("enc")

EncNext == Process

SpecEncode == EncInit /\ [][EncNext]_vars

\* C18 as stated: a tile encoder asked for output appends 64 * bpp / 8 bytes
\* for its 8x8 tile (256, 192, 128 for the 16-bit formats, 64 for the 8-bit
\* formats, 32 for L4 and A4), ETC1A4 128 bytes and ETC1 64 bytes.
TileBytes ==
    (enc_pc = "done" /\ enc_work.output) =>
        Len(enc_work.result) =
            CASE enc_work.process = "rgba8888" -> 256
              [] enc_work.process = "rgb888" -> 192
              [] enc_work.process \in {"rgba5551", "rgb565", "rgba4444", "la88",
                                       "hilo88"} -> 128
              [] enc_work.process \in {"l8", "a8", "la44"} -> 64
              [] enc_work.process \in {"l4", "a4"} -> 32
              [] enc_work.process = "etc1a4" -> 128
              [] enc_work.process = "etc1" -> 64

\* C24 as stated: encoding as RGB565 a tile whose every row holds the reds
\* 0, 31, 63, 95, 127, 159, 191, 223 over G = B = 0 emits at the Morton slots
\* 0, 1, 4, 5, 16, 17, 20, 21 the little-endian u16 values 0x0000, 0x1800,
\* 0x3000, 0x4800, 0x6000, 0x7800, 0x9800, 0xB000.
GradientExample ==
    LET G == swizzle(GradientTile, FALSE)
        u16(k) == enc_work.result[2 * k + 1] + 256 * enc_work.result[2 * k + 2]
    IN  (/\ enc_pc = "done" /\ enc_work.process = "rgb565" /\ enc_work.output
         /\ enc_work.p \in {G, [n \in 1..64 |-> PixelPreview("rgb565", G[n])]})
        => <<u16(0), u16(1), u16(4), u16(5), u16(16), u16(17), u16(20), u16(21)>>
           = <<0, 6144, 12288, 18432, 24576, 30720, 38912, 45056>>

\* C24, amended: the values emitted at those slots are 0x0000, 0x1800,
\* 0x3800, 0x5800, 0x7800, 0x9800, 0xB800, 0xD800 (the top five bits of each
\* red value, shifted left by 11).
GradientOutput ==
    LET G == swizzle(GradientTile, FALSE)
        u16(k) == enc_work.result[2 * k + 1] + 256 * enc_work.result[2 * k + 2]
    IN  (/\ enc_pc = "done" /\ enc_work.process = "rgb565" /\ enc_work.output
         /\ enc_work.p \in {G, [n \in 1..64 |-> PixelPreview("rgb565", G[n])]})
        => /\ Len(enc_work.result) = 128
           /\ <<u16(0), u16(1), u16(4), u16(5), u16(16), u16(17), u16(20),
                u16(21)>>
              = <<0, 6144, 14336, 22528, 30720, 38912, 47104, 55296>>

GradientOutputWitness ==
    /\ enc_pc = "done" /\ enc_work.process = "rgb565" /\ enc_work.output
    /\ ~enc_work.preview
    /\ enc_work.p = swizzle(GradientTile, FALSE)
    /\ enc_work.result[9] = 0 /\ enc_work.result[10] = 56

(***************************************************************************)
(* The atlas packer (source/atlas.cpp).  An image is [index, columns,      *)
(* rows]; a block is [index, x, y, w, h, rotated]; placed is the std::set  *)
(* of blocks as the sequence in its iteration order (by x, then y); a      *)
(* float u/v coordinate is the fraction [n, d] it holds exactly.           *)
(***************************************************************************)
calcPOT(x) ==
    IF x < 8 THEN 8
    ELSE CHOOSE q \in {Pow2(k) : k \in 3..11} : q >= x /\ q < 2 * x

\* Packer::intersects_placed
intersects_placed(placed, x, y) ==
    \E k \in 1..Len(placed) :
        /\ x >= placed[k].x /\ x < placed[k].x + placed[k].w
        /\ y >= placed[k].y /\ y < placed[k].y + placed[k].h

\* "--c; while (c > 0 && !intersects_placed (...)) --c;": the greatest c below
\* the start that is 0 or has a placed block right before it.  spans holds
\* <<begin, end>> of every placed block lying across the line of movement.
MoveBack(c, spans) ==
    LET stops == {0} \cup {Min(e[2], c - 1) : e \in {e \in spans : e[1] + 1 <= c - 1}}
    IN  CHOOSE m \in stops : \A t \in stops : t <= m

\* Packer::pack: x, y moved up or left as far as possible; abort when the
\* point is adjacent to nothing
pack(placed, x, y) ==
    LET intersects_left == (x = 0) \/ intersects_placed(placed, x - 1, y)
        intersects_up   == (y = 0) \/ intersects_placed(placed, x, y - 1)
        col == {<<placed[k].y, placed[k].y + placed[k].h>> : k \in
                  {k \in 1..Len(placed) : x >= placed[k].x /\ x < placed[k].x + placed[k].w}}
        row == {<<placed[k].x, placed[k].x + placed[k].w>> : k \in
                  {k \in 1..Len(placed) : y >= placed[k].y /\ y < placed[k].y + placed[k].h}}
    IN  IF ~intersects_left /\ ~intersects_up THEN [x |-> x, y |-> y, abort |-> TRUE]
        ELSE IF intersects_left /\ intersects_up THEN [x |-> x, y |-> y, abort |-> FALSE]
        ELSE IF intersects_left THEN [x |-> x, y |-> MoveBack(y, col), abort |-> FALSE]
        ELSE [x |-> MoveBack(x, row), y |-> y, abort |-> FALSE]

\* the overlap test of calc_score
OverlapsNever(x, y, w, h, block) == FALSE
Overlaps(x, y, w, h, block) ==
    /\ x < block.x + block.w /\ x + w > block.x
    /\ y < block.y + block.h /\ y + h > block.y

\* the loop of calc_score over placed from its k-th block on; NULL for
\* "return 0"
RECURSIVE score_loop(_, _, _, _, _, _, _)
score_loop(placed, k, x, y, w, h, score) ==
    IF k > Len(placed) \/ x + w < placed[k].x THEN score
    ELSE IF Overlaps(x, y, w, h, placed[k]) THEN NULL
    ELSE LET b  == placed[k]
             s1 == IF (x = b.x + b.w \/ x + w = b.x)
                      /\ Min(y + h, b.y + b.h) > Max(y, b.y)
                   THEN Min(y + h, b.y + b.h) - Max(y, b.y) ELSE 0
             s2 == IF (y = b.y + b.h \/ y + h = b.y)
                      /\ Min(x + w, b.x + b.w) > Max(x, b.x)
                   THEN Min(x + w, b.x + b.w) - Max(x, b.x) ELSE 0
         IN  score_loop(placed, k + 1, x, y, w, h, score + s1 + s2)

\* Packer::calc_score
calc_score(pk, x0, y0, w, h) ==
    LET q == pack(pk.placed, x0, y0)
        x == q.x
        y == q.y
        s == score_loop(pk.placed, 1, x, y, w, h, 0)
    IN  IF x + w > pk.width \/ y + h > pk.height \/ s = NULL THEN 0
        ELSE s + (IF x = 0 THEN h ELSE 0) + (IF x + w = pk.width THEN h ELSE 0)
               + (IF y = 0 THEN w ELSE 0) + (IF y + h = pk.height THEN w ELSE 0)

\* add_free with the point one pixel off the corner of the block
add_free_apart(free, pk, placed, x, y) ==
    IF x + 1 >= pk.width \/ y + 1 >= pk.height \/ intersects_placed(placed, x + 1, y + 1)
    THEN free ELSE free \cup {<<x + 1, y + 1>>}

\* Packer::add_free
add_free(free, pk, placed, x, y) ==
    IF x >= pk.width \/ y >= pk.height \/ intersects_placed(placed, x, y)
    THEN free ELSE free \cup {<<x, y>>}

\* the for loop of Packer::solve over free for the block at the back of next:
\* every point with its scores, unrotated and (when w # h) rotated
Candidates(pk) ==
    LET block == pk.next[Len(pk.next)]
    IN  {[xy |-> f, rot |-> r,
          score |-> calc_score(pk, f[1], f[2],
                               IF r THEN block.h ELSE block.w,
                               IF r THEN block.w ELSE block.h)] :
            f \in pk.free, r \in (IF block.w # block.h THEN BOOLEAN ELSE {FALSE})}

\* best, best_score, best_rotated after the for loop: the first candidate in
\* loop order (by x, then y, unrotated before rotated) with the highest score
Best(cands) ==
    IF cands = {} THEN [xy |-> <<0, 0>>, rot |-> FALSE, score |-> 0]
    ELSE CHOOSE c \in cands : \A d \in cands \ {c} :
            \/ c.score > d.score
            \/ /\ c.score = d.score
               /\ \/ c.xy[1] < d.xy[1]
                  \/ c.xy[1] = d.xy[1] /\ c.xy[2] < d.xy[2]
                  \/ c.xy = d.xy /\ ~c.rot /\ d.rot

\* placed.insert (block): in order by x then y; an equal key is not inserted
Insert(placed, block) ==
    LET less == Cardinality({k \in 1..Len(placed) :
                    \/ placed[k].x < block.x
                    \/ placed[k].x = block.x /\ placed[k].y < block.y})
    IN  IF \E k \in 1..Len(placed) : placed[k].x = block.x /\ placed[k].y = block.y
        THEN placed
        ELSE SubSeq(placed, 1, less) \o <<block>> \o SubSeq(placed, less + 1, Len(placed))

\* SubImage::SubImage; holds is the value of its assertion
SubImage(index, left, top, right, bottom, rotated) ==
    [index |-> index, left |-> left, top |-> top, right |-> right,
     bottom |-> bottom, rotated |-> rotated,
     holds |-> (rotated = (top.n * bottom.d < bottom.n * top.d))]

\* Block::subImage with the rotated block's coordinates passed unrotated
subImagePlain(block, columns, rows, border) ==
    LET width  == columns + border
        height == rows + border
    IN  SubImage(block.index, [n |-> block.x + border, d |-> width],
                 [n |-> height - (block.y + border), d |-> height],
                 [n |-> block.x + block.w, d |-> width],
                 [n |-> height - (block.y + block.h), d |-> height], block.rotated)
\* Block::subImage on the atlas image of columns x rows
subImage(block, columns, rows, border) ==
    LET width  == columns + border
        height == rows + border
        left   == [n |-> block.x + border, d |-> width]
        top    == [n |-> height - (block.y + border), d |-> height]
        right  == [n |-> block.x + block.w, d |-> width]
        bottom == [n |-> height - (block.y + block.h), d |-> height]
    IN  IF block.rotated
        THEN SubImage(block.index, bottom, left, top, right, TRUE)
        ELSE SubImage(block.index, left, top, right, bottom, FALSE)

\* AreaSizeComparator::compare
compare(w1, h1, w2, h2) ==
    IF w1 * h1 # w2 * h2 THEN w1 * h1 < w2 * h2
    ELSE IF Max(w1, h1) = Max(w2, h2) THEN w1 < w2
    ELSE Max(w1, h1) < Max(w2, h2)

\* Packers with the loops running to 2048
PackersWide(images, border) ==
    LET big   == images[Len(images)]
        first == calcPOT(Min(big.columns, big.rows))
        pots  == {q \in {Pow2(k) : k \in 3..11} : q >= first}
        RECURSIVE area(_)
        area(k) == IF k = 0 THEN 0
                   ELSE area(k - 1) + (images[k].rows + border) * (images[k].columns + border)
        all   == {[width |-> w - border, height |-> h - border] : w \in pots, h \in pots}
    IN  {c \in all : c.width * c.height >= area(Len(images))}

\* the packers of Atlas::build for the sorted images
Packers(images, border) ==
    LET big   == images[Len(images)]
        first == calcPOT(Min(big.columns, big.rows))
        pots  == {q \in {Pow2(k) : k \in 3..10} : q >= first}
        RECURSIVE area(_)
        area(k) == IF k = 0 THEN 0
                   ELSE area(k - 1) + (images[k].rows + border) * (images[k].columns + border)
        all   == {[width |-> w - border, height |-> h - border] : w \in pots, h \in pots}
    IN  {c \in all : c.width * c.height >= area(Len(images))}

MaxImages == 3
MaxBorder == 1
Shapes    == {<<3, 3>>, <<7, 3>>, <<3, 12>>, <<12, 7>>, <<7, 7>>}
\* images no canvas up to 1024 x 1024 holds, among at most MaxBigImages
BigShapes == {<<1030, 3>>, <<1025, 1025>>}
\* the images of the worked packing example, among at most MaxBigImages
ExampleShapes == {<<16, 16>>, <<8, 8>>}
MaxBigImages == 2

\* Atlas::build up to the sorted packers: the images, indexed in path order
\* and sorted by area (std::sort leaves the order of equal images open)
AtlasInit ==
    /\ atl_pc = "build"
    /\ atl_border \in 0..MaxBorder
    /\ \E n \in 1..MaxImages :
          \E shapes \in [1..n -> IF n <= MaxBigImages
                                    THEN Shapes \cup BigShapes \cup ExampleShapes
                                    ELSE Shapes],
             order \in [1..n -> 1..n] :
              /\ \A a, b \in 1..n : a # b => order[a] # order[b]
              /\ atl_images = [k \in 1..n |->
                                 [index |-> order[k] - 1,
                                  columns |-> shapes[order[k]][1],
                                  rows |-> shapes[order[k]][2]]]
    /\ \A a, b \in 1..Len(atl_images) :
          a < b => ~compare(atl_images[b].columns, atl_images[b].rows,
                            atl_images[a].columns, atl_images[a].rows)
    /\ atl_packers = Packers(atl_images, atl_border)
    /\ atl_packer = [width |-> 0]
    /\ atl_subs = << >>
    /\ Others("atl")

\* "for (auto &packer : packers)" over the packers sorted by
\* AreaSizeComparator: the least packer not tried yet (its constructor), or
\* "No atlas solution found."
AtlasNextPacker ==
    /\ atl_pc = "build"
    /\ IF atl_packers = {}
       THEN atl_pc' = "throw" /\ UNCHANGED <<atl_packers, atl_packer>>
       ELSE LET c == CHOOSE c \in atl_packers : \A d \in atl_packers \ {c} :
                        compare(c.width, c.height, d.width, d.height)
            IN
            /\ atl_packer' =
                  [placed |-> << >>,
                   next |-> [k \in 1..Len(atl_images) |->
                               [index |-> atl_images[k].index, x |-> 0, y |-> 0,
                                w |-> atl_images[k].columns + atl_border,
                                h |-> atl_images[k].rows + atl_border,
                                rotated |-> FALSE]],
                   free |-> {<<0, 0>>},
                   width |-> c.width, height |-> c.height]
            /\ atl_packers' = atl_packers \ {c}
            /\ atl_pc' = "solve"
    /\ UNCHANGED <<atl_images, atl_border, atl_subs>>
    /\ Frame("atl")

\* one iteration of the while loop of Packer::solve: std::abort in pack,
\* return false, or the block placed at the best point
AtlasSolve ==
    /\ atl_pc = "solve" /\ atl_packer.next # << >>
    /\ \E best \in {Best(cands) : cands \in {Candidates(atl_packer)}} :
          IF \E f \in atl_packer.free : pack(atl_packer.placed, f[1], f[2]).abort
          THEN atl_pc' = "abort" /\ UNCHANGED atl_packer
          ELSE IF best.score = 0
          THEN atl_pc' = "build" /\ UNCHANGED atl_packer
          ELSE \E at \in {pack(atl_packer.placed, best.xy[1], best.xy[2])} :
               \E block \in {LET b == atl_packer.next[Len(atl_packer.next)]
                              IN  [index |-> b.index, x |-> at.x, y |-> at.y,
                                   w |-> IF best.rot THEN b.h ELSE b.w,
                                   h |-> IF best.rot THEN b.w ELSE b.h,
                                   rotated |-> best.rot]} :
               \E placed \in {Insert(atl_packer.placed, block)} :
                  /\ atl_packer' =
                        [atl_packer EXCEPT
                           !.placed = placed,
                           !.next = SubSeq(@, 1, Len(@) - 1),
                           \* free.erase (best), add_free twice, fixup
                           !.free = {f \in add_free(
                                              add_free(@ \ {best.xy}, atl_packer, placed,
                                                       block.x + block.w, block.y),
                                              atl_packer, placed,
                                              block.x, block.y + block.h) :
                                       ~intersects_placed(placed, f[1], f[2])}]
                  /\ atl_pc' = "solve"
    /\ UNCHANGED <<atl_images, atl_border, atl_packers, atl_subs>>
    /\ Frame("atl")

\* solve returned true: the sub-images of the placed blocks, sorted by index
AtlasSolved ==
    /\ atl_pc = "solve" /\ atl_packer.next = << >>
    /\ LET subs == {subImage(atl_packer.placed[k], atl_packer.width,
                             atl_packer.height, atl_border) :
                      k \in 1..Len(atl_packer.placed)}
       IN  /\ atl_subs' = [i \in 1..Cardinality(subs) |->
                             CHOOSE u \in subs :
                                Cardinality({v \in subs : v.index < u.index}) = i - 1]
           /\ atl_pc' = IF \A u \in subs : u.holds THEN "done" ELSE "assert"
    /\ UNCHANGED <<atl_images, atl_border, atl_packers, atl_packer>>
    /\ Frame("atl")

AtlasNext == AtlasNextPacker \/ AtlasSolve \/ AtlasSolved

SpecAtlas == AtlasInit /\ [][AtlasNext]_vars

\* C7: whenever the packer returns a solution, every two placed rectangles
\* [x, x+w) x [y, y+h), in their committed orientation, are disjoint.
AtlasDisjoint ==
    atl_pc = "done" =>
        \A a, b \in 1..Len(atl_packer.placed) :
            a # b =>
                LET p == atl_packer.placed[a]
                    q == atl_packer.placed[b]
                IN  \/ p.x + p.w <= q.x \/ q.x + q.w <= p.x
                    \/ p.y + p.h <= q.y \/ q.y + q.h <= p.y

\* a solution with every image placed, three of them, one rotated
AtlasDisjointWitness ==
    /\ atl_pc = "done"
    /\ Len(atl_packer.placed) = 3
    /\ Len(atl_images) = 3
    /\ \E k \in 1..3 : atl_packer.placed[k].rotated
    /\ atl_border = 1

NoSolutionThrows ==
    /\ [](atl_pc = "done" =>
            /\ atl_packer.width + atl_border \in {Pow2(k) : k \in 3..10}
            /\ atl_packer.height + atl_border \in {Pow2(k) : k \in 3..10}
            /\ Len(atl_packer.placed) = Len(atl_images)
            /\ Len(atl_subs) = Len(atl_images))
    /\ [](atl_pc = "throw" => atl_packers = {} /\ atl_subs = << >>)
    /\ [][(atl_pc = "build" /\ atl_packers = {})
            => (atl_pc' = "throw" /\ atl_subs' = << >>)]_vars

\* every candidate canvas was tried and failed on an image 1030 wide
NoSolutionThrowsWitness ==
    /\ atl_pc = "throw"
    /\ Packers(atl_images, atl_border) # {}
    /\ atl_packer.width # 0
    /\ atl_packer.placed = << >>
    /\ Len(atl_images) = 2

\* no candidate canvas exists for an image of 1025 x 1025
NoCandidateThrows ==
    /\ atl_pc = "throw"
    /\ Packers(atl_images, atl_border) = {}
    /\ atl_packer.width = 0

\* the point xy has the canvas edge or a block of placed to its left or above
\* it: what Packer::pack needs not to abort
Anchored(placed, xy) ==
    \/ xy[1] = 0 \/ xy[2] = 0
    \/ \E k \in 1..Len(placed) :
          LET b == placed[k]
          IN  \/ /\ xy[1] - 1 >= b.x /\ xy[1] - 1 < b.x + b.w
                 /\ xy[2] >= b.y /\ xy[2] < b.y + b.h
              \/ /\ xy[1] >= b.x /\ xy[1] < b.x + b.w
                 /\ xy[2] - 1 >= b.y /\ xy[2] - 1 < b.y + b.h

\* C29: at every point of Packer::solve every anchor of the free set is at
\* x = 0, at y = 0, or has a placed rectangle over the pixel to its left or
\* above it, so that Packer::pack never reaches std::abort for an anchor of the
\* free set.  The second conjunct is the free set between placed.insert and
\* fixup: the anchors kept and the two anchors of the block just placed.
AnchorsAdjacent ==
    /\ [](/\ atl_pc # "abort"
          /\ atl_packer.width # 0 =>
                \A f \in atl_packer.free :
                    /\ Anchored(atl_packer.placed, f)
                    /\ ~pack(atl_packer.placed, f[1], f[2]).abort)
    /\ [][(atl_pc = "solve" /\ atl_pc' = "solve") =>
            \A k \in 1..Len(atl_packer'.placed) :
                LET b == atl_packer'.placed[k]
                IN  (\A j \in 1..Len(atl_packer.placed) : atl_packer.placed[j] # b)
                    => \A f \in atl_packer.free
                                 \cup {<<b.x + b.w, b.y>>, <<b.x, b.y + b.h>>} :
                          Anchored(atl_packer'.placed, f)]_vars

\* Packer::solve about to place its third block, with an anchor off both
\* canvas edges in the free set and an anchor that Packer::pack moves up or left
AnchorsAdjacentWitness ==
    /\ atl_pc = "solve"
    /\ Len(atl_packer.placed) = 2
    /\ atl_packer.next # << >>
    /\ \E f \in atl_packer.free : f[1] > 0 /\ f[2] > 0
    /\ \E f \in atl_packer.free :
          LET q == pack(atl_packer.placed, f[1], f[2])
          IN  <<q.x, q.y>> # f

\* C21: packing a 16 x 16 image (index 0) and an 8 x 8 image (index 1) with
\* border 0 gives a canvas 32 wide and 16 high with the 16 x 16 image at
\* (0, 0) and the 8 x 8 image at (16, 0); the sub-images by index have the UVs
\* (left, top, right, bottom) = (0, 1, 0.5, 0) and (0.5, 1, 0.75, 0.5).
PackExample ==
    LET Is(f, n, d) == f.n * d = n * f.d
        UV(u, l, t, r, b) ==
            /\ Is(u.left, l[1], l[2]) /\ Is(u.top, t[1], t[2])
            /\ Is(u.right, r[1], r[2]) /\ Is(u.bottom, b[1], b[2])
    IN  (/\ atl_pc = "done"
         /\ atl_border = 0
         /\ atl_images = <<[index |-> 1, columns |-> 8, rows |-> 8],
                           [index |-> 0, columns |-> 16, rows |-> 16]>>)
        => /\ atl_packer.width = 32 /\ atl_packer.height = 16
           /\ \E k \in 1..Len(atl_packer.placed) :
                 LET b == atl_packer.placed[k]
                 IN  b.index = 0 /\ b.x = 0 /\ b.y = 0
           /\ \E k \in 1..Len(atl_packer.placed) :
                 LET b == atl_packer.placed[k]
                 IN  b.index = 1 /\ b.x = 16 /\ b.y = 0
           /\ Len(atl_subs) = 2
           /\ atl_subs[1].index = 0
           /\ UV(atl_subs[1], <<0, 1>>, <<1, 1>>, <<1, 2>>, <<0, 1>>)
           /\ atl_subs[2].index = 1
           /\ UV(atl_subs[2], <<1, 2>>, <<1, 1>>, <<3, 4>>, <<1, 2>>)



(***************************************************************************)
(* BCFNT character maps (source/bcfnt.cpp).  A CMAP is a record of its     *)
(* code range, its mapping method and its data: the offset of a direct     *)
(* map, the (code, index) entries of a scan map.  The glyph map is a       *)
(* function on the codes it holds; std::map iterates it in code order.     *)
(***************************************************************************)
CMAP_TYPE_DIRECT == 0
CMAP_TYPE_SCAN   == 2
MIN_CHARS        == 7

\* allowed: std::binary_search on the sorted list, against isBlacklist
allowed(code, list, isBlacklist) ==
    (\E k \in 1..Len(list) : list[k] = code) # isBlacklist

\* the keys of a std::map in iteration order
SortedCodes(S) ==
    [k \in 1..Cardinality(S) |->
        CHOOSE c \in S : Cardinality({d \in S : d < c}) = k - 1]

\* refreshCMAPs: does this code start a new CMAP
NewRunGap(cmaps, code) ==
    cmaps = << >> \/ cmaps[Len(cmaps)].codeEnd < code - 2
NewRun(cmaps, code) ==
    cmaps = << >> \/ cmaps[Len(cmaps)].codeEnd # code - 1

\* refreshCMAPs: the body of the loop for the glyph at position index
refresh_step(cmaps, code, index) ==
    IF NewRun(cmaps, code)
    THEN Append(cmaps, [codeBegin |-> code, codeEnd |-> code,
                        mappingMethod |-> CMAP_TYPE_DIRECT,
                        offset |-> index % 65536, entries |-> {}])
    ELSE [cmaps EXCEPT ![Len(cmaps)].codeEnd = code]

RECURSIVE refresh_loop(_, _, _)
refresh_loop(codes, k, cmaps) ==
    IF k > Len(codes) THEN cmaps
    ELSE refresh_loop(codes, k + 1, refresh_step(cmaps, codes[k], k - 1))

\* BCFNT::refreshCMAPs
refreshCMAPs(glyphs) == refresh_loop(SortedCodes(DOMAIN glyphs), 1, << >>)

\* std::vector::erase of the k-th element
eraseBegin(cmaps, k) == Tail(cmaps)
erase(cmaps, k) == [j \in 1..(Len(cmaps) - 1) |->
                       IF j < k THEN cmaps[j] ELSE cmaps[j + 1]]

\* coalesceCMAP: the test for a CMAP to fold into the scan map
Small(cmap) ==
    /\ cmap.mappingMethod = CMAP_TYPE_DIRECT
    /\ cmap.codeEnd - cmap.codeBegin < MIN_CHARS - 1

\* coalesceCMAP: std::map::emplace of a folded CMAP's codes (a key already
\* in the map keeps its entry)
emplaceAll(entries, cmap) ==
    entries \cup
    {<<i, (i - cmap.codeBegin + cmap.offset) % 65536>> :
        i \in {c \in cmap.codeBegin..cmap.codeEnd :
                  \A e \in entries : e[1] # c}}

\* coalesceCMAP: the loop over the vector, from the iterator's position k
RECURSIVE coalesce_loop(_, _, _, _, _)
coalesce_loop(cmaps, k, codeBegin, codeEnd, entries) ==
    IF k > Len(cmaps)
    THEN IF entries = {} THEN cmaps
         ELSE Append(cmaps, [codeBegin |-> codeBegin, codeEnd |-> codeEnd,
                             mappingMethod |-> CMAP_TYPE_SCAN,
                             offset |-> 0, entries |-> entries])
    ELSE IF Small(cmaps[k])
    THEN coalesce_loop(erase(cmaps, k), k,
                       Min(codeBegin, cmaps[k].codeBegin),
                       Max(codeEnd, cmaps[k].codeEnd),
                       emplaceAll(entries, cmaps[k]))
    ELSE coalesce_loop(cmaps, k + 1, codeBegin, codeEnd, entries)

coalesceCMAP(cmaps) == coalesce_loop(cmaps, 1, 65535, 0, {})

\* CMAP::codePointFromIndex for the direct and the scan method (find_if
\* walks the entries in code order)
codePointFromIndex(cmap, index) ==
    IF cmap.mappingMethod = CMAP_TYPE_DIRECT
    THEN IF index < cmap.offset THEN 65535
         ELSE IF index > cmap.codeEnd - cmap.codeBegin + cmap.offset THEN 65535
         ELSE (cmap.codeBegin + index - cmap.offset) % 65536
    ELSE IF \A e \in cmap.entries : e[2] # index THEN 65535
         ELSE CHOOSE c \in {e[1] : e \in {f \in cmap.entries : f[2] = index}} :
                 \A e \in cmap.entries : e[2] = index => c <= e[1]

\* BCFNT::codepoint: the first CMAP that knows the index
codepoint(cmaps, index) ==
    IF \A k \in 1..Len(cmaps) : codePointFromIndex(cmaps[k], index) = 65535
    THEN 65535
    ELSE codePointFromIndex(
             cmaps[CHOOSE k \in 1..Len(cmaps) :
                      /\ codePointFromIndex(cmaps[k], index) # 65535
                      /\ \A j \in 1..(k - 1) :
                            codePointFromIndex(cmaps[j], index) = 65535],
             index)

\* addFont: glyphs.emplace for every glyph of new whose code the map does
\* not hold (glyphs.count (code) is 0); emplace leaves a held code alone
emplaceOver(glyphs, new) ==
    [c \in DOMAIN glyphs \cup DOMAIN new |->
        IF c \in DOMAIN new THEN new[c] ELSE glyphs[c]]
emplaceGlyphs(glyphs, new) ==
    [c \in DOMAIN glyphs \cup DOMAIN new |->
        IF c \in DOMAIN glyphs THEN glyphs[c] ELSE new[c]]

SHEET_WIDTH  == 1024
SHEET_HEIGHT == 1024
SHEET_SIZE   == (SHEET_WIDTH * SHEET_HEIGHT) \div 2

\* the glyph and sheet geometry that both addFont variants derive from the
\* cell size (cellWidth and cellHeight are bytes, the others 16 bits wide)
geometry(cellWidth, cellHeight) ==
    [cellWidth |-> cellWidth, cellHeight |-> cellHeight,
     glyphWidth |-> cellWidth + 1, glyphHeight |-> cellHeight + 1,
     glyphsPerRow |-> SHEET_WIDTH \div (cellWidth + 1),
     glyphsPerCol |-> SHEET_HEIGHT \div (cellHeight + 1),
     glyphsPerSheet |-> ((SHEET_WIDTH \div (cellWidth + 1))
                         * (SHEET_HEIGHT \div (cellHeight + 1))) % 65536]

\* (glyphs.size () - 1) / glyphsPerSheet + 1 as a 16-bit value: size - 1 is
\* a size_t, 2^64 - 1 for an empty map, divided here byte by byte
numSheetsOf(size, glyphsPerSheet) ==
    IF size > 0 THEN ((size - 1) \div glyphsPerSheet + 1) % 65536
    ELSE LET r1 == 255 % glyphsPerSheet
             r2 == (r1 * 256 + 255) % glyphsPerSheet
             r3 == (r2 * 256 + 255) % glyphsPerSheet
             r4 == (r3 * 256 + 255) % glyphsPerSheet
             r5 == (r4 * 256 + 255) % glyphsPerSheet
             r6 == (r5 * 256 + 255) % glyphsPerSheet
             r7 == (r6 * 256 + 255) % glyphsPerSheet
         IN  ((((r6 * 256 + 255) \div glyphsPerSheet) % 256) * 256
              + (((r7 * 256 + 255) \div glyphsPerSheet) % 256) + 1) % 65536

\* std::distance (std::begin (glyphs), glyphs.find (code))
distance(glyphs, code) == Cardinality({d \in DOMAIN glyphs : d < code})

\* addFont (face): the replacement character's index
altIndexOf(glyphs) ==
    IF 65533 \in DOMAIN glyphs THEN distance(glyphs, 65533)
    ELSE IF 63 \in DOMAIN glyphs THEN distance(glyphs, 63)
    ELSE IF 32 \in DOMAIN glyphs THEN distance(glyphs, 32)
    ELSE 0

\* renderGlyph: the glyph of a code, with the width record and the ascent
\* narrowed as the casts narrow them; font names the addFont call it is from
renderGlyph(face, code, font) ==
    [font |-> font,
     info |-> <<(code % 3) - 1,
                face.bitmap_width % 256,
                (face.max_advance - (code % 4)) % 256>>,
     ascent |-> face.bitmap_top % 256]

MaxCode  == 16
MaxFonts == 2
BaseCode == 30
Codes    == BaseCode..(BaseCode + MaxCode) \cup {63, 65533}
\* the input fonts: the character map is a range of codes from BaseCode on,
\* with or without '?' and 0xFFFD; the metrics (in pixels; the face's
\* descender and a glyph's bitmap_top - rows are negative) are those of a
\* font of medium or of large size
FontShapes ==
    {<<-1, {65}, FALSE>>, <<2, {63}, FALSE>>, <<8, {}, FALSE>>,
     <<MaxCode, {63, 65533}, TRUE>>, <<MaxCode, {}, TRUE>>}
Fonts ==
    {[chars |-> (BaseCode..(BaseCode + x[1])) \cup x[2],
      height |-> IF x[3] THEN 250 ELSE 140,
      bbox |-> IF x[3] THEN <<250, 255>> ELSE <<120, 130>>,
      max_advance |-> IF x[3] THEN 254 ELSE 126,
      ascender |-> IF x[3] THEN 200 ELSE 100,
      descender |-> IF x[3] THEN -55 ELSE -27,
      bitmap_top |-> IF x[3] THEN 180 ELSE 90,
      rows |-> IF x[3] THEN 230 ELSE 110,
      bitmap_width |-> IF x[3] THEN 240 ELSE 100] :
        x \in FontShapes}
\* the filter: no list, or a sorted list used as a blacklist or a whitelist
FontLists ==
    {<<<< >>, TRUE>>} \cup
    {<<<<BaseCode + MaxCode - 1, 65533>>, b>> : b \in BOOLEAN}

FontInit ==
    /\ bf_glyphs = << >>
    /\ bf_cmaps = << >>
    /\ bf = [numSheets |-> 0, altIndex |-> 0, lineFeed |-> 0, height |-> 0,
             width |-> 0, maxWidth |-> 0, ascent |-> 0,
             cellWidth |-> 0, cellHeight |-> 0, glyphWidth |-> 0,
             glyphHeight |-> 0, glyphsPerRow |-> 0, glyphsPerCol |-> 0,
             glyphsPerSheet |-> 0]
    /\ bf_fonts = 0
    /\ bf_file = << >>
    /\ bf_parsed = << >>
    /\ Others("font")

\* BCFNT::addFont (face, list, isBlacklist): the face's character map holds
\* two codes past the 16-bit code points as well; the codes of skip are not
\* loaded (FT_Load_Glyph fails, or the unlocked glyphs.count reports the
\* code as present)
AddFontFace ==
    /\ bf_fonts < MaxFonts /\ bf_file = << >>
    /\ \E face \in Fonts, skip \in {{}, {BaseCode + 5}}, filter \in FontLists :
          \E offered \in {{code \in face.chars \cup {65535, 65536} :
                             /\ ~(code >= 65535)
                             /\ code \notin skip
                             /\ allowed(code, filter[1], filter[2])}} :
          \E added \in {{code \in offered : code \notin DOMAIN bf_glyphs}},
             glyphs \in {emplaceGlyphs(bf_glyphs,
                            [code \in offered |->
                                renderGlyph(face, code, bf_fonts + 1)])} :
          \E m \in {[lineFeed |-> Max(bf.lineFeed, face.height % 256),
                     height |-> Max(bf.height, face.bbox[2] % 256),
                     width |-> Max(bf.width, face.bbox[1] % 256),
                     maxWidth |->
                        IF added = {}
                        THEN Max(bf.maxWidth, face.max_advance % 256)
                        ELSE Max(Max(bf.maxWidth, face.max_advance % 256),
                                 face.bitmap_width % 256),
                     ascent |->
                        IF added = {}
                        THEN Max(bf.ascent, face.ascender % 256)
                        ELSE Max(Max(bf.ascent, face.ascender % 256),
                                 face.bitmap_top) % 256,
                     descent |->
                        IF added = {} THEN face.descender
                        ELSE Min(face.descender,
                                 face.bitmap_top - face.rows)]} :
          \E g \in {geometry((m.maxWidth + 1) % 256,
                             (m.ascent - m.descent) % 256)} :
             /\ bf_glyphs' = glyphs
             /\ IF DOMAIN glyphs = {}
                THEN /\ bf' = [bf EXCEPT !.lineFeed = m.lineFeed,
                                         !.height = m.height,
                                         !.width = m.width,
                                         !.maxWidth = m.maxWidth,
                                         !.ascent = m.ascent]
                     /\ bf_cmaps' = bf_cmaps
                ELSE /\ bf' = [lineFeed |-> m.lineFeed, height |-> m.height,
                               width |-> m.width, maxWidth |-> m.maxWidth,
                               ascent |-> m.ascent,
                               altIndex |-> altIndexOf(glyphs),
                               numSheets |->
                                  numSheetsOf(Cardinality(DOMAIN glyphs),
                                              g.glyphsPerSheet)] @@ g
                     /\ bf_cmaps' = coalesceCMAP(refreshCMAPs(glyphs))
    /\ bf_fonts' = bf_fonts + 1
    /\ UNCHANGED <<bf_file, bf_parsed>>
    /\ Frame("font")

\* BCFNT::addFont (other, list, isBlacklist): other is the parsed font of an
\* input (its cell is maxWidth + 1 wide and ascent - descent high, every
\* glyph's ascent is that of the font)
AddFontBCFNT(face, filter) ==
    /\ bf_fonts < MaxFonts /\ bf_file = << >>
    /\    \E other \in {[ascent |-> face.ascender % 256,
                         cellHeight |-> (face.ascender - face.descender) % 256,
                         cellWidth |-> (face.max_advance + 1) % 256,
                         lineFeed |-> face.height % 256,
                         height |-> face.bbox[2] % 256,
                         width |-> face.bbox[1] % 256,
                         glyphs |->
                            [code \in face.chars |->
                                [renderGlyph(face, code, bf_fonts + 1)
                                    EXCEPT !.ascent = face.ascender % 256]]]} :
          \E glyphs \in {emplaceGlyphs(bf_glyphs,
                            [code \in {c \in DOMAIN other.glyphs :
                                          /\ c # 65535
                                          /\ allowed(c, filter[1], filter[2])}
                                |-> other.glyphs[code]])},
             newAscent \in {Max(other.ascent, bf.ascent)} :
          \E g \in {geometry(Max(other.cellWidth, bf.cellWidth),
                             (newAscent
                              + Max(other.cellHeight - other.ascent,
                                    bf.cellHeight - bf.ascent)) % 256)} :
             /\ bf_glyphs' = glyphs
             /\ bf_cmaps' = refreshCMAPs(glyphs)
             /\ bf' = [ascent |-> newAscent,
                       lineFeed |-> Max(bf.lineFeed, other.lineFeed),
                       height |-> Max(bf.height, other.height),
                       width |-> Max(bf.width, other.width),
                       maxWidth |-> g.cellWidth,
                       altIndex |-> bf.altIndex,
                       numSheets |->
                          numSheetsOf(Cardinality(DOMAIN glyphs),
                                      g.glyphsPerSheet)] @@ g
    /\ bf_fonts' = bf_fonts + 1
    /\ UNCHANGED <<bf_file, bf_parsed>>
    /\ Frame("font")

\* operator<< for an unsigned value of n bytes: little-endian
LEBig(v, n) == [k \in 1..n |-> (v \div (256 ^ (n - k))) % 256]
LE(v, n) == [k \in 1..n |-> (v \div (256 ^ (k - 1))) % 256]

\* serialize: the CMAP blocks from the k-th on, the k-th at cmapOffset
RECURSIVE cmapBlocks(_, _, _)
cmapBlocks(cmaps, k, cmapOffset) ==
    IF k > Len(cmaps) THEN << >>
    ELSE LET cmap == cmaps[k]
             keys == SortedCodes({e[1] : e \in cmap.entries})
             size == IF cmap.mappingMethod = CMAP_TYPE_DIRECT THEN 20 + 4
                     ELSE 20 + 4 + Cardinality(cmap.entries) * 4
         IN  <<67, 77, 65, 80>> \o LE(size, 4)
             \o LE(cmap.codeBegin, 2) \o LE(cmap.codeEnd, 2)
             \o LE(cmap.mappingMethod, 2) \o LE(0, 2)
             \o LE(IF k = Len(cmaps) THEN 0 ELSE cmapOffset + size + 8, 4)
             \o (IF cmap.mappingMethod = CMAP_TYPE_DIRECT
                 THEN LE(cmap.offset, 2) \o LE(0, 2)
                 ELSE LE(Len(keys) % 65536, 2)
                      \o [i \in 1..(4 * Len(keys)) |->
                            LE(IF ((i - 1) % 4) < 2
                               THEN keys[(i - 1) \div 4 + 1]
                               ELSE CHOOSE v \in {e[2] : e \in cmap.entries} :
                                       <<keys[(i - 1) \div 4 + 1], v>>
                                          \in cmap.entries,
                               2)[((i - 1) % 2) + 1]]
                      \o LE(0, 2))
             \o cmapBlocks(cmaps, k + 1, cmapOffset + size)

\* BCFNT::serialize: the output (the CFNT, FINF and TGLP headers in head,
\* the sheets from sheetOffset on, whose pixels are not modelled, the CWDH
\* and CMAP blocks in tail from cwdhOffset on); a signed byte is written as
\* its unsigned value
serialize(glyphs, codes, cmaps, font, defaultWidth) ==
    LET sheetOffset == ((20 + 32 + 32 + 127) \div 128) * 128
        cwdhOffset == sheetOffset + font.numSheets * (SHEET_SIZE)
        cwdhData == ((3 * Len(codes) + 3) \div 4) * 4
        cmapOffset == cwdhOffset + 16 + cwdhData
        cmapSizes[k \in 0..Len(cmaps)] ==
            IF k = 0 THEN 0
            ELSE cmapSizes[k - 1] + 20
                 + (IF cmaps[k].mappingMethod = CMAP_TYPE_DIRECT THEN 4
                    ELSE 4 + Cardinality(cmaps[k].entries) * 4)
        tail == <<67, 87, 68, 72>> \o LE(16 + cwdhData, 4) \o LE(0, 2)
                \o LE(Len(codes) % 65536, 2) \o LE(0, 4)
                \o [i \in 1..cwdhData |->
                      IF i > 3 * Len(codes) THEN 0
                      ELSE (glyphs[codes[(i - 1) \div 3 + 1]]
                               .info[((i - 1) % 3) + 1] + 256) % 256]
                \o cmapBlocks(cmaps, 1, cmapOffset)
    IN  [head |->
            <<67, 70, 78, 84>> \o LE(65279, 2) \o LE(20, 2)
            \o <<0, 0, 0, 3>> \o LE(cmapOffset + cmapSizes[Len(cmaps)], 4)
            \o LE(3 + Len(cmaps), 4)
            \o <<70, 73, 78, 70>> \o LE(32, 4) \o <<1, font.lineFeed>>
            \o LE(font.altIndex, 2)
            \o [i \in 1..3 |-> (defaultWidth[i] + 256) % 256] \o <<1>>
            \o LE(20 + 32 + 8, 4) \o LE(cwdhOffset + 8, 4)
            \o LE(cmapOffset + 8, 4)
            \o <<font.height, font.width, font.ascent, 0>>
            \o <<84, 71, 76, 80>> \o LE(32, 4)
            \o <<font.cellWidth, font.cellHeight, font.ascent, font.maxWidth>>
            \o LE(SHEET_SIZE, 4)
            \o LE(font.numSheets, 2) \o LE(11, 2)
            \o LE(font.glyphsPerRow, 2) \o LE(font.glyphsPerCol, 2)
            \o LE(SHEET_WIDTH, 2) \o LE(SHEET_HEIGHT, 2) \o LE(sheetOffset, 4),
         sheetOffset |-> sheetOffset,
         cwdhOffset |-> cwdhOffset,
         tail |-> tail]

\* operator>> for an unsigned value of n bytes at an offset of the file
RD(file, off, n) ==
    LET byte(o) == IF o < Len(file.head) THEN file.head[o + 1]
                   ELSE IF o >= file.cwdhOffset
                   THEN file.tail[o - file.cwdhOffset + 1]
                   ELSE 0
    IN  IF n = 1 THEN byte(off)
        ELSE IF n = 2 THEN byte(off) + 256 * byte(off + 1)
        ELSE byte(off) + 256 * byte(off + 1) + 65536 * byte(off + 2)
             + 16777216 * byte(off + 3)

\* BCFNT::BCFNT (data): the loop over the CMAP blocks (direct and scan)
RECURSIVE readCMAPs(_, _)
readCMAPs(file, cmapOffset) ==
    IF cmapOffset = 0 THEN << >>
    ELSE <<[codeBegin |-> RD(file, cmapOffset, 2),
            codeEnd |-> RD(file, cmapOffset + 2, 2),
            mappingMethod |-> RD(file, cmapOffset + 4, 2),
            offset |-> IF RD(file, cmapOffset + 4, 2) = CMAP_TYPE_DIRECT
                       THEN RD(file, cmapOffset + 12, 2) ELSE 0,
            entries |-> IF RD(file, cmapOffset + 4, 2) = CMAP_TYPE_DIRECT
                        THEN {}
                        ELSE {<<RD(file, cmapOffset + 14 + 4 * e, 2),
                                RD(file, cmapOffset + 16 + 4 * e, 2)>> :
                                 e \in {j \in 0..(RD(file, cmapOffset + 12, 2) - 1) :
                                          \A i \in 0..(j - 1) :
                                             RD(file, cmapOffset + 14 + 4 * i, 2)
                                             # RD(file, cmapOffset + 14 + 4 * j, 2)}}]>>
         \o readCMAPs(file, RD(file, cmapOffset + 8, 4))

\* BCFNT::BCFNT (data): the loops over the CWDH blocks and over the glyph
\* indices of a block, at index glyph of the block at cwdhOffset: the
\* (code, width record) pairs in the order they are stored; a byte read into
\* left becomes signed
RECURSIVE readCWDHs(_, _, _, _, _)
readCWDHs(file, cwdhOffset, glyph, cmaps, infos) ==
    IF cwdhOffset = 0 THEN infos
    ELSE IF glyph >= RD(file, cwdhOffset + 2, 2)
    THEN readCWDHs(file, RD(file, cwdhOffset + 4, 4),
                   IF RD(file, cwdhOffset + 4, 4) = 0 THEN 0
                   ELSE RD(file, RD(file, cwdhOffset + 4, 4), 2),
                   cmaps, infos)
    ELSE readCWDHs(file, cwdhOffset, glyph + 1, cmaps,
            Append(infos,
                <<codepoint(cmaps, glyph),
                  <<IF RD(file, cwdhOffset + 8
                            + 3 * (glyph - RD(file, cwdhOffset, 2)), 1) >= 128
                    THEN RD(file, cwdhOffset + 8
                            + 3 * (glyph - RD(file, cwdhOffset, 2)), 1) - 256
                    ELSE RD(file, cwdhOffset + 8
                            + 3 * (glyph - RD(file, cwdhOffset, 2)), 1),
                    RD(file, cwdhOffset + 9
                         + 3 * (glyph - RD(file, cwdhOffset, 2)), 1),
                    RD(file, cwdhOffset + 10
                         + 3 * (glyph - RD(file, cwdhOffset, 2)), 1)>>>>))

\* BCFNT::BCFNT (data) from the CMAP blocks on, with readGlyphImages: the
\* parsed font; glyphs[code].info makes the glyph of a code that has none
parse(file, cmaps, infos) ==
    LET tglp == RD(file, 36, 4)
        g == [cellWidth |-> RD(file, tglp, 1),
              cellHeight |-> RD(file, tglp + 1, 1),
              glyphWidth |-> RD(file, tglp, 1) + 1,
              glyphHeight |-> RD(file, tglp + 1, 1) + 1,
              maxWidth |-> RD(file, tglp + 3, 1),
              numSheets |-> RD(file, tglp + 8, 2),
              glyphsPerRow |-> RD(file, tglp + 12, 2),
              glyphsPerCol |-> RD(file, tglp + 14, 2),
              glyphsPerSheet |->
                 (RD(file, tglp + 12, 2) * RD(file, tglp + 14, 2)) % 65536]
        images == {codepoint(cmaps,
                       (sheet * g.glyphsPerSheet + y * g.glyphsPerRow + x)
                          % 65536) :
                     sheet \in 0..(g.numSheets - 1),
                     y \in 0..(g.glyphsPerCol - 1),
                     x \in 0..(g.glyphsPerRow - 1)} \ {65535}
    IN  [lineFeed |-> RD(file, 29, 1), altIndex |-> RD(file, 30, 2),
         defaultWidth |-> <<IF RD(file, 32, 1) >= 128
                            THEN RD(file, 32, 1) - 256 ELSE RD(file, 32, 1),
                            RD(file, 33, 1), RD(file, 34, 1)>>,
         height |-> RD(file, 48, 1), width |-> RD(file, 49, 1),
         ascent |-> RD(file, 50, 1), cmaps |-> cmaps,
         glyphs |->
            [code \in images \cup {infos[k][1] : k \in 1..Len(infos)} |->
                [info |->
                    IF \E k \in 1..Len(infos) : infos[k][1] = code
                    THEN infos[CHOOSE k \in 1..Len(infos) :
                                  /\ infos[k][1] = code
                                  /\ \A j \in (k + 1)..Len(infos) :
                                        infos[j][1] # code][2]
                    ELSE <<0, 0, 0>>,
                 ascent |-> IF code \in images THEN RD(file, 50, 1) ELSE 0]]]
        @@ g

\* BCFNT::serialize on the font built so far; defaultWidth is never set by
\* BCFNT () or addFont, so the bytes written for it are any bytes
Serialize ==
    /\ bf_file = << >> /\ bf # << >>
    /\ IF DOMAIN bf_glyphs = {}
       THEN bf_file' = [head |-> << >>]
       ELSE \E defaultWidth \in {<<0, 0, 0>>, <<-1, 255, 255>>},
               codes \in {SortedCodes(DOMAIN bf_glyphs)} :
               bf_file' = serialize(bf_glyphs, codes, bf_cmaps, bf,
                                    defaultWidth)
    /\ UNCHANGED <<bf_glyphs, bf_cmaps, bf, bf_fonts, bf_parsed>>
    /\ Frame("font")

\* BCFNT::BCFNT (data) on the file that serialize wrote; the constructor
\* returns early on a byte-order mark other than 0xFEFF, and after the CMAP
\* blocks on a sheet format other than 0xB
Parse ==
    /\ bf_file # << >> /\ bf_file.head # << >> /\ bf_parsed = << >>
    /\ IF RD(bf_file, 4, 2) # 65279
       THEN bf_parsed' = [glyphs |-> << >>, cmaps |-> << >>, altIndex |-> 0,
                          numSheets |-> 0, glyphsPerSheet |-> 0]
       ELSE \E cmaps \in {readCMAPs(bf_file, RD(bf_file, 44, 4))} :
               IF RD(bf_file, RD(bf_file, 36, 4) + 10, 2) # 11
               THEN bf_parsed' = [glyphs |-> << >>, cmaps |-> cmaps,
                                  altIndex |-> RD(bf_file, 30, 2),
                                  numSheets |->
                                     RD(bf_file, RD(bf_file, 36, 4) + 8, 2),
                                  glyphsPerSheet |-> 0]
               ELSE \E infos \in {readCWDHs(bf_file, RD(bf_file, 40, 4),
                                       RD(bf_file, RD(bf_file, 40, 4), 2),
                                       cmaps, << >>)} :
                       bf_parsed' = parse(bf_file, cmaps, infos)
    /\ UNCHANGED <<bf_glyphs, bf_cmaps, bf, bf_fonts, bf_file>>
    /\ Frame("font")

FontNext ==
    \/ AddFontFace
    \/ \E face \in Fonts, filter \in FontLists : AddFontBCFNT(face, filter)
    \/ Serialize
    \/ Parse

SpecFont == FontInit /\ [][FontNext]_vars

\* C11: the font parsed from the bytes that serialize wrote has a glyph for
\* every code of the serialized font, at the same position in code order
\* and with the same width record, and its altIndex is the index of one of
\* its glyphs.
SerializeRoundTrip ==
    bf_parsed # << >> =>
        /\ \A code \in DOMAIN bf_glyphs :
              /\ code \in DOMAIN bf_parsed.glyphs
              /\ distance(bf_parsed.glyphs, code) = distance(bf_glyphs, code)
              /\ bf_parsed.glyphs[code].info = bf_glyphs[code].info
        /\ bf_parsed.altIndex < Cardinality(DOMAIN bf_parsed.glyphs)

SerializeRoundTripWitness ==
    /\ bf_parsed # << >>
    /\ bf_parsed.numSheets = 2
    /\ Cardinality(DOMAIN bf_parsed.glyphs) > bf_parsed.glyphsPerSheet
    /\ bf_parsed.altIndex > 0
    /\ \E k \in 1..Len(bf_parsed.cmaps) :
          bf_parsed.cmaps[k].mappingMethod = CMAP_TYPE_SCAN
    /\ \E k \in 1..Len(bf_parsed.cmaps) :
          bf_parsed.cmaps[k].mappingMethod = CMAP_TYPE_DIRECT
    /\ \E code \in DOMAIN bf_glyphs : bf_glyphs[code].info[1] < 0

\* C22: a font built from a scalable face that contributes the single glyph
\* 'A' (code 65), once serialized and parsed back, has exactly one CMAP, of
\* method direct, with codeBegin = codeEnd = 65 and offset 0, and its single
\* CWDH entry is the one that was emitted.
SingleGlyphDirect ==
    (/\ bf_parsed # << >>
     /\ bf_fonts = 1
     /\ DOMAIN bf_glyphs = {65}
     /\ \E face \in Fonts : bf_glyphs[65] = renderGlyph(face, 65, 1))
    => /\ Len(bf_parsed.cmaps) = 1
       /\ bf_parsed.cmaps[1].mappingMethod = CMAP_TYPE_DIRECT
       /\ bf_parsed.cmaps[1].codeBegin = 65
       /\ bf_parsed.cmaps[1].codeEnd = 65
       /\ bf_parsed.cmaps[1].offset = 0
       /\ DOMAIN bf_parsed.glyphs = {65}
       /\ bf_parsed.glyphs[65].info = bf_glyphs[65].info

\* C12: an addFont call leaves every glyph of the map as it is - its
\* source, its width record and its ascent - and every glyph it inserts is
\* one of the source added by this call, so a code keeps the glyph of the
\* earliest source that had it.
GlyphsKept ==
    [][/\ \A code \in DOMAIN bf_glyphs :
             /\ code \in DOMAIN bf_glyphs'
             /\ bf_glyphs'[code] = bf_glyphs[code]
       /\ \A code \in DOMAIN bf_glyphs' \ DOMAIN bf_glyphs :
             bf_glyphs'[code].font = bf_fonts']_vars

GlyphsKeptWitness ==
    /\ bf_fonts = 2
    /\ \E code \in DOMAIN bf_glyphs : bf_glyphs[code].font = 1
    /\ \E code \in DOMAIN bf_glyphs : bf_glyphs[code].font = 2
    /\ \E a, b \in DOMAIN bf_glyphs :
          a < b /\ bf_glyphs[a].font = 2 /\ bf_glyphs[b].font = 1

\* C13 as stated: after a merge of a parsed font no direct CMAP of fewer
\* than MIN_CHARS codes remains in the list.
MergeCoalesces ==
    [][(\E face \in Fonts, filter \in FontLists : AddFontBCFNT(face, filter))
       => \A k \in 1..Len(bf_cmaps') : ~Small(bf_cmaps'[k])]_vars

\* C14 as stated: in every state of the font, after either addFont, altIndex
\* is the position of 0xFFFD, else of '?', else of ' ', else 0.
AltIndexCurrent == bf # << >> => bf.altIndex = altIndexOf(bf_glyphs)

\* C15 as stated: a merge of a font whose every code the glyph map holds
\* leaves the glyph map, the metrics and geometry, numSheets, altIndex and
\* the CMAP list as they were.
MergeOfDuplicatesIsIdentity ==
    [][\A face \in Fonts, filter \in FontLists :
          (face.chars \subseteq DOMAIN bf_glyphs /\ AddFontBCFNT(face, filter))
          => bf_glyphs' = bf_glyphs /\ bf' = bf /\ bf_cmaps' = bf_cmaps]_vars

\* the glyph indices a CMAP gives a code: a direct map covers its range from
\* its offset on, a scan map holds the code's entry
IndicesOf(cmap, code) ==
    IF cmap.mappingMethod = CMAP_TYPE_DIRECT
    THEN IF cmap.codeBegin <= code /\ code <= cmap.codeEnd
         THEN {code - cmap.codeBegin + cmap.offset} ELSE {}
    ELSE {e[2] : e \in {f \in cmap.entries : f[1] = code}}

\* C9: after every addFont call the CMAP list maps each code of the glyph
\* map to its position in code order and to nothing else, maps no code that
\* the glyph map lacks (0xFFFF among them), and codepoint leads every
\* position back to its code and every other index to 0xFFFF.
CmapCoversGlyphs ==
    /\ \A code \in Codes \cup {65535} :
          UNION {IndicesOf(bf_cmaps[k], code) : k \in 1..Len(bf_cmaps)} =
             IF code \in DOMAIN bf_glyphs
             THEN {Cardinality({d \in DOMAIN bf_glyphs : d < code})}
             ELSE {}
    /\ \A index \in 0..Cardinality(Codes) :
          codepoint(bf_cmaps, index) =
             IF index < Cardinality(DOMAIN bf_glyphs)
             THEN SortedCodes(DOMAIN bf_glyphs)[index + 1]
             ELSE 65535

CmapCoversGlyphsWitness ==
    /\ bf_fonts = MaxFonts
    /\ \E k \in 1..Len(bf_cmaps) : bf_cmaps[k].mappingMethod = CMAP_TYPE_SCAN
    /\ \E k \in 1..Len(bf_cmaps) :
          /\ bf_cmaps[k].mappingMethod = CMAP_TYPE_DIRECT
          /\ bf_cmaps[k].offset > 0
    /\ \E code \in Codes : code \notin DOMAIN bf_glyphs
    /\ \E code \in DOMAIN bf_glyphs : bf_glyphs[code].font = 2

\* C10 as stated: no code lies in the [codeBegin, codeEnd] range of more
\* than one CMAP of the list, the scan CMAP included.
CmapRangesDisjoint ==
    \A a, b \in 1..Len(bf_cmaps) :
        a < b => \/ bf_cmaps[a].codeEnd < bf_cmaps[b].codeBegin
                 \/ bf_cmaps[b].codeEnd < bf_cmaps[a].codeBegin

\* C10, amended: no code is mapped by more than one CMAP of the list: the
\* ranges of the direct CMAPs are pairwise disjoint, there is at most one
\* scan CMAP, and no code with an entry in it lies in the range of a direct
\* CMAP; the scan CMAP's own range runs from its least to its greatest code
\* and may enclose direct CMAPs.
CmapMappingsDisjoint ==
    /\ \A code \in Codes \cup {65535} :
          Cardinality({k \in 1..Len(bf_cmaps) :
                          IndicesOf(bf_cmaps[k], code) # {}}) <= 1
    /\ \A a, b \in 1..Len(bf_cmaps) :
          (/\ a < b
           /\ bf_cmaps[a].mappingMethod = CMAP_TYPE_DIRECT
           /\ bf_cmaps[b].mappingMethod = CMAP_TYPE_DIRECT)
          => \/ bf_cmaps[a].codeEnd < bf_cmaps[b].codeBegin
             \/ bf_cmaps[b].codeEnd < bf_cmaps[a].codeBegin
    /\ Cardinality({k \in 1..Len(bf_cmaps) :
                       bf_cmaps[k].mappingMethod = CMAP_TYPE_SCAN}) <= 1
    /\ \A k \in 1..Len(bf_cmaps) :
          bf_cmaps[k].mappingMethod = CMAP_TYPE_SCAN =>
             /\ bf_cmaps[k].codeBegin <= bf_cmaps[k].codeEnd
             /\ \A e \in bf_cmaps[k].entries :
                   bf_cmaps[k].codeBegin <= e[1] /\ e[1] <= bf_cmaps[k].codeEnd

CmapMappingsDisjointWitness ==
    \E a, b \in 1..Len(bf_cmaps) :
        /\ bf_cmaps[a].mappingMethod = CMAP_TYPE_DIRECT
        /\ bf_cmaps[b].mappingMethod = CMAP_TYPE_SCAN
        /\ bf_cmaps[b].codeBegin < bf_cmaps[a].codeBegin
        /\ bf_cmaps[a].codeEnd < bf_cmaps[b].codeEnd

(***************************************************************************)
(* The thread pool (source/threadPool.cpp, include/threadPool.h) under the *)
(* ingestion of a scalable font, BCFNT::addFont (face) in                  *)
(* source/bcfnt.cpp.  The main thread is thread 0, the pool's workers are  *)
(* threads 1 .. threads.size (); ing_mutex holds the thread that owns the  *)
(* ingestion mutex, or NoThread.  A critical section under the pool's      *)
(* mutex is one step.  A job is the code point it renders; its deferred    *)
(* future runs in the first thread that waits for it.                      *)
(***************************************************************************)
MainThread == 0
NoThread   == -1

MaxPoolJobs == 4
MaxHc       == 1

\* init: "std::max (1u, std::thread::hardware_concurrency ())" threads
numThreads(hardware_concurrency) == Max(1, hardware_concurrency)

\* "while (jobs.size () > threads.size () * 2)" blocking one job later
pushBlocksLate(jobs, threads) == Len(jobs) > threads * 2 + 1
pushBlocks(jobs, threads) == Len(jobs) > threads * 2

\* a worker that has seen quit goes back to waiting
quitReturnsNever(quit) == FALSE
quitReturns(quit) == quit

\* the face has the code points 1 .. MaxPoolJobs, none of them in the font
PoolInit ==
    /\ pl_hc \in 0..MaxHc
    /\ pl_pc = << >> /\ pl_job = << >>
    /\ pl_jobs = << >>
    /\ pl_quit = FALSE
    /\ ing = [pc |-> "metrics", code |-> 1, futures |-> << >>, future |-> 1,
              joined |-> 0]
    /\ ing_glyphs = {}
    /\ ing_mutex = NoThread
    /\ ing_jobs = [code \in 1..MaxPoolJobs |-> "none"]
    /\ Others("pool")

\* the threads that are at an access to the glyph map
GlyphAccessors ==
    (IF \/ ing.pc = "count1" /\ ing.code <= MaxPoolJobs
        \/ ing.pc \in {"count2", "emplace"}
     THEN {MainThread} ELSE {})
    \cup {k \in DOMAIN pl_pc : pl_pc[k] = "emplace"}

\* glyphs.count (code), read without the mutex: while another thread is at
\* its glyphs.emplace the read races with the insertion and gives any answer
glyphsCount(code) ==
    IF \E k \in DOMAIN pl_pc : pl_pc[k] = "emplace" THEN BOOLEAN
    ELSE {code \in ing_glyphs}

\* addFont: lineFeed, height, width, maxWidth, ascent and descent from the
\* face's metrics, before the loop over the face's character map
IngestMetrics ==
    /\ ing.pc = "metrics"
    /\ ing' = [ing EXCEPT !.pc = "count1"]
    /\ UNCHANGED <<pl_hc, pl_pc, pl_job, pl_jobs, pl_quit, ing_glyphs,
                   ing_mutex, ing_jobs>>
    /\ Frame("pool")

\* "while (faceIndex != 0)" and "if (.. || glyphs.count (code))"
IngestCount1 ==
    /\ ing.pc = "count1"
    /\ IF ing.code > MaxPoolJobs
       THEN ing' = [ing EXCEPT !.pc = "futures"]
       ELSE \E present \in glyphsCount(ing.code) :
               ing' = IF present THEN [ing EXCEPT !.code = @ + 1]
                      ELSE [ing EXCEPT !.pc = "count2"]
    /\ UNCHANGED <<pl_hc, pl_pc, pl_job, pl_jobs, pl_quit, ing_glyphs,
                   ing_mutex, ing_jobs>>
    /\ Frame("pool")

\* FT_Load_Glyph, which may fail, then
\* "if (allowed (code, list, isBlacklist) && !glyphs.count (code))": the
\* job's future is made (std::async, deferred) and pushJob is entered
IngestCount2 ==
    /\ ing.pc = "count2"
    /\ \E error \in BOOLEAN, present \in glyphsCount(ing.code) :
          IF error \/ present
          THEN /\ ing' = [ing EXCEPT !.pc = "count1", !.code = @ + 1]
               /\ UNCHANGED ing_jobs
          ELSE /\ ing' = [ing EXCEPT !.pc = "push"]
               /\ ing_jobs' = [ing_jobs EXCEPT ![ing.code] = "deferred"]
    /\ UNCHANGED <<pl_hc, pl_pc, pl_job, pl_jobs, pl_quit, ing_glyphs, ing_mutex>>
    /\ Frame("pool")

\* newJob.notify_one (): one waiting worker, if any, goes back to its lock
NotifyNewJob(pcs) ==
    IF \E k \in DOMAIN pcs : pcs[k] = "wait"
    THEN {[pcs EXCEPT ![k] = "lock"] : k \in {x \in DOMAIN pcs : pcs[x] = "wait"}}
    ELSE {pcs}

\* ThreadPool::pushJob: std::call_once (initOnce, init), then under the
\* mutex wait on jobTaken or emplace the job, then newJob.notify_one ()
PushJob ==
    /\ ing.pc = "push"
    /\ \E pcs \in {IF pl_pc = << >>
                   THEN [k \in 1..numThreads(pl_hc) |-> "lock"] ELSE pl_pc} :
          IF pushBlocks(pl_jobs, Len(pcs))
          THEN /\ ing' = [ing EXCEPT !.pc = "push_wait"]
               /\ pl_pc' = pcs
               /\ UNCHANGED pl_jobs
          ELSE /\ pl_jobs' = Append(pl_jobs, ing.code)
               /\ pl_pc' \in NotifyNewJob(pcs)
               /\ ing' = [ing EXCEPT !.pc = "count1", !.code = @ + 1,
                                     !.futures = Append(@, ing.code)]
    /\ pl_job' = IF pl_pc = << >> THEN [k \in 1..numThreads(pl_hc) |-> 0]
                 ELSE pl_job
    /\ UNCHANGED <<pl_hc, pl_quit, ing_glyphs, ing_mutex, ing_jobs>>
    /\ Frame("pool")

\* worker, under the mutex: wait on newJob, return on quit, or take a job
PoolWorkerLock(k) ==
    /\ pl_pc[k] = "lock"
    /\ IF ~pl_quit /\ pl_jobs = << >>
       THEN /\ pl_pc' = [pl_pc EXCEPT ![k] = "wait"]
            /\ UNCHANGED <<pl_job, pl_jobs>>
       ELSE IF quitReturns(pl_quit)
       THEN /\ pl_pc' = [pl_pc EXCEPT ![k] = "exit"]
            /\ UNCHANGED <<pl_job, pl_jobs>>
       ELSE IF pl_jobs = << >>
       THEN /\ pl_pc' = [pl_pc EXCEPT ![k] = "wait"]
            /\ UNCHANGED <<pl_job, pl_jobs>>
       ELSE /\ pl_job' = [pl_job EXCEPT ![k] = Head(pl_jobs)]
            /\ pl_jobs' = Tail(pl_jobs)
            /\ pl_pc' = [pl_pc EXCEPT ![k] = "notify"]
    /\ UNCHANGED <<pl_hc, pl_quit, ing, ing_glyphs, ing_mutex, ing_jobs>>
    /\ Frame("pool")

\* worker: jobTaken.notify_one (), which wakes the producer if it waits
PoolWorkerNotify(k) ==
    /\ pl_pc[k] = "notify"
    /\ pl_pc' = [pl_pc EXCEPT ![k] = "job"]
    /\ ing' = IF ing.pc = "push_wait" THEN [ing EXCEPT !.pc = "push"] ELSE ing
    /\ UNCHANGED <<pl_hc, pl_job, pl_jobs, pl_quit, ing_glyphs, ing_mutex,
                   ing_jobs>>
    /\ Frame("pool")

\* worker: job (), that is future.wait (): run the deferred job, wait for
\* the thread that runs it, or find it done
PoolWorkerJob(k) ==
    /\ pl_pc[k] = "job"
    /\ ing_jobs[pl_job[k]] # "running"
    /\ IF ing_jobs[pl_job[k]] = "deferred"
       THEN /\ ing_jobs' = [ing_jobs EXCEPT ![pl_job[k]] = "running"]
            /\ pl_pc' = [pl_pc EXCEPT ![k] = "render"]
            /\ UNCHANGED pl_job
       ELSE /\ pl_pc' = [pl_pc EXCEPT ![k] = "lock"]
            /\ pl_job' = [pl_job EXCEPT ![k] = 0]
            /\ UNCHANGED ing_jobs
    /\ UNCHANGED <<pl_hc, pl_jobs, pl_quit, ing, ing_glyphs, ing_mutex>>
    /\ Frame("pool")

\* the job: renderGlyph, then "std::unique_lock<std::mutex> lock (mutex)"
PoolWorkerRender(k) ==
    /\ pl_pc[k] = "render"
    /\ ing_mutex = NoThread
    /\ ing_mutex' = k
    /\ pl_pc' = [pl_pc EXCEPT ![k] = "emplace"]
    /\ UNCHANGED <<pl_hc, pl_job, pl_jobs, pl_quit, ing, ing_glyphs, ing_jobs>>
    /\ Frame("pool")

\* the job: ascent, descent and maxWidth tightened, glyphs.emplace, and the
\* lock released at the end of the job
PoolWorkerEmplace(k) ==
    /\ pl_pc[k] = "emplace"
    /\ ing_glyphs' = ing_glyphs \cup {pl_job[k]}
    /\ ing_jobs' = [ing_jobs EXCEPT ![pl_job[k]] = "done"]
    /\ ing_mutex' = NoThread
    /\ pl_pc' = [pl_pc EXCEPT ![k] = "lock"]
    /\ pl_job' = [pl_job EXCEPT ![k] = 0]
    /\ UNCHANGED <<pl_hc, pl_jobs, pl_quit, ing>>
    /\ Frame("pool")

\* "for (auto &future : futures) future.wait ()": the main thread runs a
\* job that no worker has started, waits for one that runs, and goes on to
\* the font's geometry and character maps after the last
IngestFutures ==
    /\ ing.pc = "futures"
    /\ IF ing.future > Len(ing.futures)
       THEN /\ ing' = [ing EXCEPT !.pc = "done"]
            /\ UNCHANGED ing_jobs
       ELSE /\ ing_jobs[ing.futures[ing.future]] # "running"
            /\ IF ing_jobs[ing.futures[ing.future]] = "deferred"
               THEN /\ ing_jobs' = [ing_jobs EXCEPT
                                       ![ing.futures[ing.future]] = "running"]
                    /\ ing' = [ing EXCEPT !.pc = "render"]
               ELSE /\ ing' = [ing EXCEPT !.future = @ + 1]
                    /\ UNCHANGED ing_jobs
    /\ UNCHANGED <<pl_hc, pl_pc, pl_job, pl_jobs, pl_quit, ing_glyphs, ing_mutex>>
    /\ Frame("pool")

\* the job in the main thread: renderGlyph, then the lock
IngestRender ==
    /\ ing.pc = "render"
    /\ ing_mutex = NoThread
    /\ ing_mutex' = MainThread
    /\ ing' = [ing EXCEPT !.pc = "emplace"]
    /\ UNCHANGED <<pl_hc, pl_pc, pl_job, pl_jobs, pl_quit, ing_glyphs, ing_jobs>>
    /\ Frame("pool")

\* the job in the main thread: the metrics, glyphs.emplace, the unlock
IngestEmplace ==
    /\ ing.pc = "emplace"
    /\ ing_glyphs' = ing_glyphs \cup {ing.futures[ing.future]}
    /\ ing_jobs' = [ing_jobs EXCEPT ![ing.futures[ing.future]] = "done"]
    /\ ing_mutex' = NoThread
    /\ ing' = [ing EXCEPT !.pc = "futures", !.future = @ + 1]
    /\ UNCHANGED <<pl_hc, pl_pc, pl_job, pl_jobs, pl_quit>>
    /\ Frame("pool")

\* ThreadPool::~ThreadPool at the end of the program: quit set under the
\* mutex, newJob.notify_all ()
PoolQuit ==
    /\ ing.pc = "done"
    /\ pl_quit' = TRUE
    /\ pl_pc' = [k \in DOMAIN pl_pc |->
                   IF pl_pc[k] = "wait" THEN "lock" ELSE pl_pc[k]]
    /\ ing' = [ing EXCEPT !.pc = "join"]
    /\ UNCHANGED <<pl_hc, pl_job, pl_jobs, ing_glyphs, ing_mutex, ing_jobs>>
    /\ Frame("pool")

\* "for (auto &thread : threads) thread.join ()"
PoolJoin ==
    /\ ing.pc = "join"
    /\ IF ing.joined < Len(pl_pc)
       THEN /\ pl_pc[ing.joined + 1] = "exit"
            /\ ing' = [ing EXCEPT !.joined = @ + 1]
       ELSE ing' = [ing EXCEPT !.pc = "joined"]
    /\ UNCHANGED <<pl_hc, pl_pc, pl_job, pl_jobs, pl_quit, ing_glyphs,
                   ing_mutex, ing_jobs>>
    /\ Frame("pool")

\* a condition variable may wake a waiter spuriously
PoolSpuriousWakeup ==
    /\ \/ /\ ing.pc = "push_wait"
          /\ ing' = [ing EXCEPT !.pc = "push"]
          /\ UNCHANGED pl_pc
       \/ /\ \E k \in DOMAIN pl_pc :
                pl_pc[k] = "wait" /\ pl_pc' = [pl_pc EXCEPT ![k] = "lock"]
          /\ UNCHANGED ing
    /\ UNCHANGED <<pl_hc, pl_job, pl_jobs, pl_quit, ing_glyphs, ing_mutex,
                   ing_jobs>>
    /\ Frame("pool")

PoolWorker(k) ==
    \/ PoolWorkerLock(k) \/ PoolWorkerNotify(k) \/ PoolWorkerJob(k)
    \/ PoolWorkerRender(k) \/ PoolWorkerEmplace(k)

PoolMain ==
    \/ IngestMetrics \/ IngestCount1 \/ IngestCount2 \/ PushJob
    \/ IngestFutures \/ IngestRender \/ IngestEmplace \/ PoolQuit \/ PoolJoin

PoolNext ==
    \/ PoolMain
    \/ \E k \in DOMAIN pl_pc : PoolWorker(k)
    \/ PoolSpuriousWakeup

SpecPool == PoolInit /\ [][PoolNext]_vars

\* every thread that can take a step is scheduled in the end; a spurious
\* wakeup need not happen
SpecPoolFair ==
    /\ SpecPool
    /\ WF_vars(PoolMain)
    /\ \A k \in 1..Max(1, MaxHc) : WF_vars(k \in DOMAIN pl_pc /\ PoolWorker(k))

\* C26 as stated: during the ingestion of a scalable font no two threads are
\* ever at an access to the glyph map (a test whether a code point is
\* present, or an insertion by a job) at the same time, as every such access
\* is made by the thread that holds the ingestion mutex.
GlyphMapExclusive == Cardinality(GlyphAccessors) <= 1

\* C27: pushJob adds a job only while at most 2 x threads jobs are queued,
\* so the queue never holds more than 2 x threads + 1 jobs, and a producer
\* that waits on jobTaken is woken in the end, after a worker has taken a
\* job.
QueueBounded ==
    /\ [](Len(pl_jobs) <= 2 * Len(pl_pc) + 1)
    /\ [][Len(pl_jobs') > Len(pl_jobs) => Len(pl_jobs) <= 2 * Len(pl_pc')]_vars
    /\ (ing.pc = "push_wait") ~> (ing.pc # "push_wait")

\* the producer waits with 2 x threads + 1 jobs queued
QueueBoundedWitness ==
    /\ ing.pc = "push_wait"
    /\ Len(pl_pc) = 1
    /\ Len(pl_jobs) = 2 * Len(pl_pc) + 1

MinLogSize == 3
MaxLogSize == 10

\* "uint8_t w = std::log (static_cast<double> (output_width)) / std::log (2.0)":
\* the quotient of the logarithms cut to an integer
RECURSIVE log2_u8(_)
log2_u8(n) == IF n < 2 THEN 0 ELSE 1 + log2_u8(n \div 2)

\* num_mipmaps from the greater of the two logarithms
num_mipmaps_max(w, h, filter) ==
    IF ~filter THEN 0 ELSE (Max(w, h) - 3) % 256

\* "uint8_t num_mipmaps = std::min (w, h) - 3; if (filter_type ==
\* Magick::UndefinedFilter) num_mipmaps = 0;"
num_mipmaps(w, h, filter) ==
    IF ~filter THEN 0 ELSE (Min(w, h) - 3) % 256

\* load_image: output_width and output_height are the sizes of the image
\* handed to process_image
MipInit ==
    /\ \E a, b \in MinLogSize..MaxLogSize, filter \in BOOLEAN :
          mip = [pc |-> "process", output_width |-> Pow2(a),
                 output_height |-> Pow2(b), filter |-> filter,
                 img_queue |-> << >>, image_data |-> << >>,
                 mipmapLevels |-> NULL]
    /\ Others("mip")

\* process_image: "add base level", "generate mipmaps"
MipGenerate ==
    /\ mip.pc = "process"
    /\ LET base == <<[width |-> mip.output_width, height |-> mip.output_height]>>
       IN  mip' = [mip EXCEPT
                     !.pc = "levels",
                     !.img_queue = IF mip.filter
                                   THEN mipmaps(base, mip.output_width,
                                                mip.output_height)
                                   ELSE base]
    /\ Frame("mip")

\* process_image: one iteration of "process each image in the mipmap queue",
\* the tiles of the level at the front appended to image_data
MipLevel ==
    /\ mip.pc = "levels" /\ mip.img_queue # << >>
    /\ LET img == Head(mip.img_queue)
       IN  mip' = [mip EXCEPT
                     !.img_queue = Tail(@),
                     !.image_data = Append(@, [width |-> img.width,
                                               height |-> img.height,
                                               tiles |-> (img.width \div 8)
                                                         * (img.height \div 8)])]
    /\ Frame("mip")

\* write_tex3ds_header, once every level is processed: mipmapLevels
MipHeader ==
    /\ mip.pc = "levels" /\ mip.img_queue = << >>
    /\ mip' = [mip EXCEPT
                 !.pc = "done",
                 !.mipmapLevels = num_mipmaps(log2_u8(mip.output_width),
                                              log2_u8(mip.output_height),
                                              mip.filter)]
    /\ Frame("mip")

MipNext == MipGenerate \/ MipLevel \/ MipHeader

SpecMip == MipInit /\ [][MipNext]_vars

\* C30: for every power-of-two output width and height from 8 to 1024 the
\* mipmapLevels of the Tex3DS header is the number of levels whose tile data
\* process_image appends after the base level: min(log2 width, log2 height) - 3
\* with a mipmap filter selected, 0 with none.
MipmapLevelsMatch ==
    mip.pc = "done" =>
        /\ mip.mipmapLevels = Len(mip.image_data) - 1
        /\ \E a, b \in MinLogSize..MaxLogSize :
              /\ mip.output_width = Pow2(a) /\ mip.output_height = Pow2(b)
              /\ mip.mipmapLevels = IF mip.filter THEN Min(a, b) - 3 ELSE 0
        /\ \A k \in 1..Len(mip.image_data) : mip.image_data[k].tiles >= 1

\* a 1024 x 64 texture with a filter: three levels after the base level
MipmapLevelsMatchWitness ==
    /\ mip.pc = "done"
    /\ mip.filter
    /\ mip.output_width = 1024 /\ mip.output_height = 64
    /\ mip.mipmapLevels = 3
    /\ Len(mip.image_data) = 4
    /\ mip.image_data[4] = [width |-> 128, height |-> 8, tiles |-> 16]

=============================================================================
